---- MODULE Spec2Model ----
(***************************************************************************)
(* Verification model of the finance warehouse pipeline                    *)
(* (src/src/pipe.py, class FinancePipeline): the ingestion ledger, the     *)
(* file classifier, the transactional per-file loader and the fiscal-type  *)
(* rules of the gold transformer.                                          *)
(***************************************************************************)
EXTENDS Integers, Sequences, FiniteSets, TLC

VARIABLES
    ingested_files,   \* the ledger table: [exists, rows], rows = filenames in insert order
    tables,           \* staging tables: table key -> [exists, rows]
    gold_dataset,     \* the materialised gold table: [exists, rows]
    master_tables,    \* self.master_tables: table key -> list of paths
    pc,               \* "idle" | "load": where run_import stands
    queue,            \* the (table, file) attempts still ahead in step 3 of run_import
    attempts,         \* the file attempts of the current / last run_import, as printed
    propagated,       \* the last run_import ended by an exception leaving it
    runs,             \* number of run_import invocations so far
    loads,            \* history: filename -> number of committed loads
    data_files,       \* a candidate list kept by the caller (re-submitted, or filtered)
    files_to_process, \* ledger check: what get_new_files returned for data_files
    fname,            \* classifier check: the file name at hand
    category,         \* classifier check: the table key chosen for fname
    frame_in,         \* fiscal-type check: the input frame
    frame_out,        \* fiscal-type check: the output frame
    op,               \* fiscal-type check: which operation produced frame_out
    meta,             \* the reference (meta_*) tables of the database
    outcome,          \* how run_transformation ended since the object was made and
                      \* run_import last called: "none" | "ok" | "raised"
    output_path       \* the partitioned parquet dataset: <<Year, Month>> -> rows

dbVars == <<ingested_files, tables, gold_dataset>>
importVars == <<master_tables, pc, queue, attempts, propagated, runs, loads>>
ledgerVars == <<data_files, files_to_process>>
classVars == <<fname, category>>
fiscalVars == <<frame_in, frame_out, op>>
transformVars == <<meta, outcome, output_path>>
vars == <<ingested_files, tables, gold_dataset, master_tables, pc, queue, attempts,
          propagated, runs, loads, data_files, files_to_process,
          fname, category, frame_in, frame_out, op, meta, outcome, output_path>>

(***************************************************************************)
(* Bounds                                                                  *)
(***************************************************************************)
MaxBatch == 2     \* length of a candidate list
MaxQueued == 3    \* paths held in self.master_tables, over all table keys
MaxRuns == 2      \* invocations of the repeated-import scenario

(***************************************************************************)
(* Values                                                                  *)
(***************************************************************************)
NA == "<NA>"      \* pandas NA / SQL NULL

Range(s) == {s[i] : i \in DOMAIN s}

\* The table keys of self.master_tables, in dict (insertion) order.
TableKeys ==
    <<"actuals", "commit_cc", "commit_wbs", "cost_center_details", "wbs_budget",
      "forecast_budget", "forecast_live_estimate", "forecast_pre_budget",
      "forecast_trend">>

TableKeySet == Range(TableKeys)

(***************************************************************************)
(* str.lower() and the "in" substring test                                 *)
(***************************************************************************)
UpperChars == "ABCDEFGHIJKLMNOPQRSTUVWXYZ"
LowerChars == "abcdefghijklmnopqrstuvwxyz"

LowerChar(c) ==
    IF \E i \in 1..Len(UpperChars) : SubSeq(UpperChars, i, i) = c
    THEN LET i == CHOOSE j \in 1..Len(UpperChars) : SubSeq(UpperChars, j, j) = c
         IN SubSeq(LowerChars, i, i)
    ELSE c

RECURSIVE Lower(_)
Lower(s) ==
    IF Len(s) = 0 THEN ""
    ELSE LowerChar(SubSeq(s, 1, 1)) \o Lower(SubSeq(s, 2, Len(s)))

\* pat in s
Contains(pat, s) ==
    \E i \in 1..(Len(s) - Len(pat) + 1) : SubSeq(s, i, i + Len(pat) - 1) = pat

(***************************************************************************)
(* File classifier: the if/elif chain of run_import, step 2                *)
(***************************************************************************)
ClassifySwapped(name) ==
    LET f == Lower(name) IN
    IF Contains("commit_cc", f) THEN "commit_cc"
    ELSE IF Contains("ccdet", f) THEN "cost_center_details"
    ELSE IF Contains("commit_wbs", f) THEN "commit_wbs"
    ELSE IF Contains("wbs_budget", f) THEN "wbs_budget"
    ELSE IF Contains("_le_", f) THEN "forecast_live_estimate"
    ELSE IF Contains("_prebud_", f) THEN "forecast_pre_budget"
    ELSE IF Contains("_bud_", f) THEN "forecast_budget"
    ELSE IF Contains("_t0", f) THEN "forecast_trend"
    ELSE "actuals"

Classify(name) ==
    LET f == Lower(name) IN
    IF Contains("ccdet", f) THEN "cost_center_details"
    ELSE IF Contains("commit_cc", f) THEN "commit_cc"
    ELSE IF Contains("commit_wbs", f) THEN "commit_wbs"
    ELSE IF Contains("wbs_budget", f) THEN "wbs_budget"
    ELSE IF Contains("_le_", f) THEN "forecast_live_estimate"
    ELSE IF Contains("_prebud_", f) THEN "forecast_pre_budget"
    ELSE IF Contains("_bud_", f) THEN "forecast_budget"
    ELSE IF Contains("_t0", f) THEN "forecast_trend"
    ELSE "actuals"

(***************************************************************************)
(* Candidate files.  A path is [dir, name]; Path.name is the last part.    *)
(* Two of the paths share a file name.                                     *)
(***************************************************************************)
PathA1 == [dir |-> "in1", name |-> "Actuals_2024_03.csv"]
PathA2 == [dir |-> "in2", name |-> "Actuals_2024_03.csv"]
PathCD == [dir |-> "in1", name |-> "FY24_CCDET_commit_cc.csv"]
PathCW == [dir |-> "in1", name |-> "Commit_WBS_Q1.csv"]
PathCC == [dir |-> "in1", name |-> "COMMIT_CC_Q1.csv"]

PathA3 == [dir |-> "in1", name |-> "Actuals_2024_04.csv"]
PathWB == [dir |-> "in1", name |-> "WBS_Budget_2024.csv"]

\* The files a caller may hand to run_import.
Paths == {PathA1, PathA2, PathCD}

\* The files of the end-to-end scenario: two actuals files and one committed-WBS file.
ScenarioPaths == {PathA1, PathA3, PathCW}

AllPaths == Paths \cup ScenarioPaths \cup {PathCC, PathWB}

FileNames == {p.name : p \in AllPaths}

\* One data row of a raw export, under the column names of the file's header.
\* Codes are strings, NA where the cell is empty; amounts, years and periods
\* are numbers.
RawRecord(wbs, cc, pcc, product, gl, pctr, amount, year, period, doc) ==
    ("WBS Element" :> wbs) @@ ("Cost Center" :> cc) @@ ("Partner Cost Center" :> pcc)
    @@ ("Product" :> product) @@ ("Cost element" :> gl) @@ ("Profit Center" :> pctr)
    @@ ("Value in Obj. Crcy" :> amount) @@ ("Fiscal Year" :> year)
    @@ ("Period" :> period) @@ ("Ref. document number" :> doc)

RawRow(wbs, cc, pcc, product) ==
    RawRecord(wbs, cc, pcc, product, "GL1", NA, 100, 2024, 3, "D1")

\* What is stored in each file (the data rows under its header).
FileContent(p) ==
    CASE p = PathA1 -> <<RawRow("M100", NA, NA, "PR1"),
                         RawRecord(NA, "CC1", NA, NA, "GL1", "PC1", 40, 2024, 3, "D2")>>
      [] p = PathA2 -> <<RawRow("P200", "CC1", NA, NA)>>
      [] p = PathA3 -> <<RawRecord("P200", NA, NA, NA, "GL2", NA, 7, 2024, 4, "D3")>>
      [] p = PathCD -> <<RawRow(NA, NA, "CC2", NA)>>
      [] p = PathCW -> <<RawRow("P200", NA, NA, NA)>>
      [] p = PathCC -> <<RawRow(NA, "CC1", NA, "PR1")>>
      [] p = PathWB -> <<RawRow("P200", NA, NA, NA)>>

\* row with column col set to v (df[col] = v, per row)
SetCol(row, col, v) ==
    [c \in (DOMAIN row) \cup {col} |-> IF c = col THEN v ELSE row[c]]

DropCol(row, col) == [c \in (DOMAIN row) \ {col} |-> row[c]]

\* Decimal digits of a date part.
Digit(n) == SubSeq("0123456789", n + 1, n + 1)

Pad2(n) == Digit((n \div 10) % 10) \o Digit(n % 10)

Pad4(n) == Pad2(n \div 100) \o Pad2(n % 100)

\* Whether pd.to_datetime accepts the assembled (year, month, day=1).
ValidMonth(month) == month \in 1..12

\* pd.to_datetime of the assembled year / month / day columns, per row: the
\* timestamp at midnight of that day, written as its ISO date.
to_datetime(year, month, day) == Pad4(year) \o "-" \o Pad2(month) \o "-" \o Pad2(day)

\* pd.read_csv / pd.read_parquet followed by df["source_file"] = file_path.name
\* and the PartitionDate column assembled from Fiscal Year and Period.
ReadFile(p) ==
    LET content == FileContent(p)
    IN [i \in DOMAIN content |->
           SetCol(SetCol(content[i], "source_file", p.name), "PartitionDate",
                  to_datetime(content[i]["Fiscal Year"], content[i]["Period"], 1))]

\* ReadFile, tabulated once over the files.
FileFrame == [p \in AllPaths |-> ReadFile(p)]

\* Candidate lists: up to MaxBatch distinct paths in any order (two distinct
\* paths may carry the same file name).
CandidateLists ==
    {l \in UNION {[1..n -> Paths] : n \in 0..MaxBatch} :
        \A i, j \in DOMAIN l : i # j => l[i] # l[j]}

(***************************************************************************)
(* The relational store                                                    *)
(***************************************************************************)
NoTable == [exists |-> FALSE, rows |-> <<>>]
EmptyTable == [exists |-> TRUE, rows |-> <<>>]

\* CREATE TABLE IF NOT EXISTS ingested_files (filename TEXT PRIMARY KEY, ...)
track_processed_files(ledger) ==
    IF ledger.exists THEN ledger ELSE EmptyTable

\* get_new_files: SELECT filename FROM ingested_files, then the list filter.
get_new_files_unfiltered(ledger, files) == files

get_new_files(ledger, files) ==
    LET processed_set == Range(ledger.rows)
    IN SelectSeq(files, LAMBDA f : f.name \notin processed_set)

\* CREATE TABLE IF NOT EXISTS <table_key> AS SELECT * FROM df_typed WHERE 1=0
CreateTableIfNotExists(tbls, table_key) ==
    IF tbls[table_key].exists THEN tbls
    ELSE [tbls EXCEPT ![table_key] = EmptyTable]

\* INSERT INTO <table_key> SELECT * FROM df_typed
InsertRows(tbls, table_key, df) ==
    [tbls EXCEPT ![table_key].rows = @ \o df]

\* The PRIMARY KEY of ingested_files rejects a filename it already holds.
DuplicateKeyNever(ledger, name) == FALSE

DuplicateKey(ledger, name) == name \in Range(ledger.rows)

\* INSERT INTO ingested_files (filename) VALUES (?)
LedgerInsertOverwrites(ledger, name) == [ledger EXCEPT !.rows = <<name>>]

LedgerInsert(ledger, name) == [ledger EXCEPT !.rows = Append(@, name)]

\* ROLLBACK inside an open transaction: the store is as it was at BEGIN.
RollbackKeepsWrites(snapshot, current) == current

Rollback(snapshot, current) == snapshot

(***************************************************************************)
(* Gold transformer: the columns the fiscal-type rules read                *)
(***************************************************************************)
\* COLUMN_RENAME
ColumnRename(c) ==
    CASE c = "Cost Center" -> "Cost Center Code"
      [] c = "Cost element" -> "G/L Account"
      [] c = "G/L Account Long Name" -> "G/L Account Name"
      [] c = "Material" -> "Material Code"
      [] c = "Partner Cost Center" -> "Partner Cost Center Code"
      [] c = "Profit Center" -> "Profit Center Code"
      [] c = "Product" -> "Product Code"
      [] c = "Product Description" -> "Product Name"
      [] c = "Project External ID" -> "Project Code"
      [] c = "Period" -> "Fiscal Period"
      [] c = "Signature" -> "Signature Code"
      [] c = "Value in Obj. Crcy" -> "Amount in Company Code Currency"
      [] c = "WBS Element" -> "WBS Element Code"
      [] c = "WBS Element External ID" -> "WBS Element Code"
      [] c = "WBS element" -> "WBS Element Code"
      [] OTHER -> c

\* frame.rename(columns=self.COLUMN_RENAME), per row
RenameRow(row) ==
    [n \in {ColumnRename(c) : c \in DOMAIN row} |->
        row[CHOOSE c \in DOMAIN row : ColumnRename(c) = n]]

\* pd.concat([a, b]): rows of a then rows of b, over the union of the columns;
\* a column a row lacks is NA.
PdConcat(a, b) ==
    LET both == a \o b
        cols == UNION {DOMAIN both[i] : i \in DOMAIN both}
    IN [i \in DOMAIN both |->
           [c \in cols |-> IF c \in DOMAIN both[i] THEN both[i][c] ELSE NA]]

\* frame.rename(columns=COLUMN_RENAME)
RenameColumns(frame) == [i \in DOMAIN frame |-> RenameRow(frame[i])]

\* frame[c] = v, a scalar broadcast to every row
AssignScalar(frame, c, v) == [i \in DOMAIN frame |-> SetCol(frame[i], c, v)]

\* frame[dst] = frame[src]
CopyColumn(frame, dst, src) ==
    [i \in DOMAIN frame |-> SetCol(frame[i], dst, frame[i][src])]

\* frame.drop(columns=c)
DropColumn(frame, c) == [i \in DOMAIN frame |-> DropCol(frame[i], c)]

\* frame.rename(columns={old: new})
RenameColumn(frame, old, new) ==
    [i \in DOMAIN frame |-> SetCol(DropCol(frame[i], old), new, frame[i][old])]

\* frame[target] = frame[first].fillna(frame[second])
FillNa(frame, target, first, second) ==
    [i \in DOMAIN frame |->
        SetCol(frame[i], target,
               IF frame[i][first] # NA THEN frame[i][first] ELSE frame[i][second])]

\* frame.drop(columns=cols, errors="ignore")
DropColumns(frame, cols) ==
    [i \in DOMAIN frame |-> [c \in (DOMAIN frame[i]) \ cols |-> frame[i][c]]]

\* The columns of a frame, read off its rows (the reference frames of the
\* model are never empty).
ColumnsOf(frame) == UNION {DOMAIN frame[i] : i \in DOMAIN frame}

(***************************************************************************)
(* Reference tables, as the frames run_transformation selects them (with   *)
(* the column aliases of its SELECT statements).                           *)
(***************************************************************************)
WbsElement(code, name, level, gl, pctr) ==
    ("WBS Element Code" :> code) @@ ("WBS Element Name" :> name)
    @@ ("WBS Level" :> level) @@ ("WBS G/L Account" :> gl)
    @@ ("WBS Profit Center Code" :> pctr)

Pair(c1, v1, c2, v2) == (c1 :> v1) @@ (c2 :> v2)

Triple(c1, v1, c2, v2, c3, v3) == (c1 :> v1) @@ (c2 :> v2) @@ (c3 :> v3)

\* A consistent set of reference tables.  M100 carries a G/L account and no
\* profit center, P200 a profit center and no G/L account; G/L account GL1
\* maps to compass code CX and GL2 to none; cost center CC1 maps (through
\* hierarchy node N1) to compass code CY and CC2 to none.
MetaDefault ==
    [wbs_elements |-> <<WbsElement("M100", "Media", 1, "GL2", NA),
                        WbsElement("P200", "Promo", 2, NA, "PC2")>>,
     wbs_codification |-> <<Triple("WBS Type Char", "M", "WBS Type", "Media",
                                   "WBS Typ Local", "Medias"),
                            Triple("WBS Type Char", "P", "WBS Type", "Promotion",
                                   "WBS Typ Local", "Promo")>>,
     gl_accounts |-> <<Pair("G/L Account", "GL1", "G/L Acct Long Text", "Fees"),
                       Pair("G/L Account", "GL2", "G/L Acct Long Text", "Media")>>,
     gl_accounts_to_compass |-> <<Pair("Compass Code", "CX", "G/L Account", "GL1")>>,
     cost_centers |-> <<Triple("Cost Center Code", "CC1", "Profit Center Code", "PC1",
                               "Standard Hierarchy Node", "N1"),
                        Triple("Cost Center Code", "CC2", "Profit Center Code", "PC2",
                               "Standard Hierarchy Node", "N9")>>,
     node_to_compass |-> <<Pair("Standard Hierarchy Node", "N1", "Compass Code", "CY")>>,
     compass_codes |-> <<Pair("Compass Code", "CX", "P&L Line Text", "Line X"),
                         Pair("Compass Code", "CY", "P&L Line Text", "Line Y")>>,
     profit_centers |-> <<Triple("Profit Center Code", "PC1", "Division", "Luxe",
                                 "Signature Code", "S1"),
                          Triple("Profit Center Code", "PC2", "Division", "Pro",
                                 "Signature Code", "S9")>>,
     signatures |-> <<Pair("Signature Code", "S1", "Signature Description", "Sig One")>>]

\* The same tables with two compass codes for G/L account GL1.
MetaTwoCompassCodes ==
    [MetaDefault EXCEPT !.gl_accounts_to_compass =
        <<Pair("Compass Code", "CX", "G/L Account", "GL1"),
          Pair("Compass Code", "CY", "G/L Account", "GL1")>>]

\* The same tables with no mapping that matches anything staged.
MetaNoMatch ==
    [MetaDefault EXCEPT
        !.wbs_elements = <<WbsElement("Z900", "Other", 1, NA, NA)>>,
        !.gl_accounts_to_compass = <<Pair("Compass Code", "CX", "G/L Account", "GL9")>>,
        !.cost_centers = <<Triple("Cost Center Code", "CC7", "Profit Center Code", "PC9",
                                  "Standard Hierarchy Node", "N5")>>,
        !.node_to_compass = <<Pair("Standard Hierarchy Node", "N5", "Compass Code", "CY")>>,
        !.profit_centers = <<Triple("Profit Center Code", "PC9", "Division", "Luxe",
                                    "Signature Code", "S1")>>]

\* A database the metadata command never ran on: no meta_* table exists.
NoMeta == [missing |-> TRUE]

\* meta_wbs_elements."WBS Element": the reference WBS element codes
WbsElementCodes ==
    {MetaDefault.wbs_elements[i]["WBS Element Code"] : i \in DOMAIN MetaDefault.wbs_elements}

(***************************************************************************)
(* pd.merge                                                                *)
(***************************************************************************)
\* No two rows of the frame carry the same key value.
IsUnique(frame, key) ==
    \A i, j \in DOMAIN frame : frame[i][key] = frame[j][key] => i = j

\* validate=...: what pd.merge checks before joining (MergeError otherwise)
MergeValid(left, right, key, validate) ==
    CASE validate = "one_to_one" -> IsUnique(left, key) /\ IsUnique(right, key)
      [] validate = "many_to_one" -> IsUnique(right, key)
      [] OTHER -> TRUE

\* One joined row: the key once, the columns both sides carry renamed with the
\* suffixes, the others as they are; rcols are the columns of the right frame.
JoinRow(l, r, rcols, key, lsuf, rsuf) ==
    LET overlap == ((DOMAIN l) \cap rcols) \ {key}
    IN [c \in (DOMAIN l) \ overlap |-> l[c]]
       @@ [n \in {c \o lsuf : c \in overlap} |->
              l[CHOOSE c \in overlap : c \o lsuf = n]]
       @@ [c \in rcols \ (overlap \cup {key}) |-> r[c]]
       @@ [n \in {c \o rsuf : c \in overlap} |->
              r[CHOOSE c \in overlap : c \o rsuf = n]]

RECURSIVE MergeFromDropUnmatched(_, _, _, _, _, _, _)
MergeFromDropUnmatched(left, right, key, how, lsuf, rsuf, i) ==
    IF i > Len(left) THEN <<>>
    ELSE LET rcols == ColumnsOf(right)
             matches == SelectSeq(right, LAMBDA r : r[key] = left[i][key])
         IN [j \in DOMAIN matches |->
                JoinRow(left[i], matches[j], rcols, key, lsuf, rsuf)]
            \o MergeFromDropUnmatched(left, right, key, how, lsuf, rsuf, i + 1)

PdMergeDropUnmatched(left, right, key, how, lsuf, rsuf) ==
    MergeFromDropUnmatched(left, right, key, how, lsuf, rsuf, 1)

\* The joined rows from left row i on, in left order: a left row with matches
\* gives one row per match, one without gives a row of NA (how="left") or
\* nothing (how="inner").
RECURSIVE MergeFrom(_, _, _, _, _, _, _)
MergeFrom(left, right, key, how, lsuf, rsuf, i) ==
    IF i > Len(left) THEN <<>>
    ELSE LET rcols == ColumnsOf(right)
             matches == SelectSeq(right, LAMBDA r : r[key] = left[i][key])
             nulls == [c \in rcols |-> NA]
             joined ==
                 IF matches = <<>>
                 THEN IF how = "left"
                      THEN <<JoinRow(left[i], nulls, rcols, key, lsuf, rsuf)>>
                      ELSE <<>>
                 ELSE [j \in DOMAIN matches |->
                          JoinRow(left[i], matches[j], rcols, key, lsuf, rsuf)]
         IN joined \o MergeFrom(left, right, key, how, lsuf, rsuf, i + 1)

\* pd.merge(left, right, on=key, how=how, suffixes=(lsuf, rsuf))
PdMerge(left, right, key, how, lsuf, rsuf) ==
    MergeFrom(left, right, key, how, lsuf, rsuf, 1)

(***************************************************************************)
(* Enhancing and linking the reference tables                              *)
(***************************************************************************)
\* enhance_wbs_elements: str[0:1] of the code
WbsTypeChar(code) == SubSeq(code, 1, 1)

\* wbs_elements.loc[level_one_mask, parent] = wbs_elements.loc[level_one_mask, col]
\* followed by ffill(), at row i: the cell of a level-one row holds the row's
\* own value of col, every other cell is empty, and ffill gives each empty
\* cell (an NA copied from a level-one row included) the last value above it.
RECURSIVE ParentAt(_, _, _)
ParentAt(wbs_elements, col, i) ==
    IF i = 0 THEN NA
    ELSE IF wbs_elements[i]["WBS Level"] = 1 /\ wbs_elements[i][col] # NA
         THEN wbs_elements[i][col]
    ELSE ParentAt(wbs_elements, col, i - 1)

enhance_wbs_elements(wbs_elements, wbs_codification) ==
    LET parents ==
            [i \in DOMAIN wbs_elements |->
                SetCol(SetCol(SetCol(wbs_elements[i],
                    "WBS Parent Code", ParentAt(wbs_elements, "WBS Element Code", i)),
                    "WBS Parent Name", ParentAt(wbs_elements, "WBS Element Name", i)),
                    "WBS Type Char", WbsTypeChar(wbs_elements[i]["WBS Element Code"]))]
    IN PdMerge(parents, wbs_codification, "WBS Type Char", "left", "_x", "_y")

link_profit_center_to_signatures(profit_centers, signatures) ==
    PdMerge(profit_centers, signatures, "Signature Code", "left", "_x", "_y")

\* link_cost_center_to_compass as a left join.
link_cost_center_to_compass_left(cost_centers, node_to_compass) ==
    DropColumns(PdMerge(cost_centers, node_to_compass, "Standard Hierarchy Node",
                        "left", "_x", "_y"),
                {"Standard Hierarchy Node"})

link_cost_center_to_compass(cost_centers, node_to_compass) ==
    DropColumns(PdMerge(cost_centers, node_to_compass, "Standard Hierarchy Node",
                        "inner", "_x", "_y"),
                {"Standard Hierarchy Node"})

link_gl_to_compass_unvalidated(gl_accounts, gl_to_compass) ==
    [raised |-> FALSE,
     frame |-> PdMerge(gl_accounts, gl_to_compass, "G/L Account", "left", "_x", "_y")]

\* link_gl_to_compass: the frame, or raised when validate="one_to_one" fails
link_gl_to_compass(gl_accounts, gl_to_compass) ==
    IF MergeValid(gl_accounts, gl_to_compass, "G/L Account", "one_to_one")
    THEN [raised |-> FALSE,
          frame |-> PdMerge(gl_accounts, gl_to_compass, "G/L Account", "left",
                            "_x", "_y")]
    ELSE [raised |-> TRUE, frame |-> <<>>]

\* The metadata frames run_transformation hands to the make_gold_* functions.
MetaFrames(m) ==
    [wbs_enhanced |-> enhance_wbs_elements(m.wbs_elements, m.wbs_codification),
     profit_centers_to_signatures |->
         link_profit_center_to_signatures(m.profit_centers, m.signatures),
     cost_center_to_compass |->
         link_cost_center_to_compass(m.cost_centers, m.node_to_compass),
     gl_to_compass |-> link_gl_to_compass(m.gl_accounts, m.gl_accounts_to_compass).frame,
     compass_codes |-> m.compass_codes]

\* meta_frame_wbs: the frames run_transformation hands to make_gold_commit_wbs
MetaFrameWbs(meta_frame) ==
    [k \in {"wbs_enhanced", "compass_codes", "gl_to_compass"} |-> meta_frame[k]]

\* meta_frame_cc: the frames run_transformation hands to make_gold_commit_cc
MetaFrameCc(meta_frame) ==
    [k \in {"gl_to_compass", "cost_center_to_compass", "compass_codes"} |-> meta_frame[k]]

\* The reference tables a database may hold.
MetaChoices == {MetaDefault, MetaTwoCompassCodes, MetaNoMatch}

\* MetaFrames, tabulated once over the reference tables.
MetaFramesOf == [m \in MetaChoices |-> MetaFrames(m)]

\* get_wbs_attributes with the fills the other way round (raw value first).
get_wbs_attributes_raw_first(frame, wbs_elements) ==
    LET dropped == DropColumns(frame, ColumnsOf(wbs_elements) \ {"WBS Element Code"})
        merged == PdMerge(dropped, wbs_elements, "WBS Element Code", "left", "_x", "_y")
        native == [i \in DOMAIN merged |->
                      SetCol(merged[i], "Native G/L Account", merged[i]["G/L Account"])]
        gl == FillNa(native, "G/L Account", "G/L Account", "WBS G/L Account")
        pctr == FillNa(gl, "Profit Center Code", "Profit Center Code",
                       "WBS Profit Center Code")
    IN DropColumns(pctr, {"WBS Profit Center Code", "WBS G/L Account"})

\* get_wbs_attributes: the left merge on WBS Element Code, then the WBS-derived
\* G/L account and profit center override the raw ones where they are not NA.
get_wbs_attributes(frame, wbs_elements) ==
    LET dropped == DropColumns(frame, ColumnsOf(wbs_elements) \ {"WBS Element Code"})
        merged == PdMerge(dropped, wbs_elements, "WBS Element Code", "left", "_x", "_y")
        native == [i \in DOMAIN merged |->
                      SetCol(merged[i], "Native G/L Account", merged[i]["G/L Account"])]
        gl == FillNa(native, "G/L Account", "WBS G/L Account", "G/L Account")
        pctr == FillNa(gl, "Profit Center Code", "WBS Profit Center Code",
                       "Profit Center Code")
    IN DropColumns(pctr, {"WBS Profit Center Code", "WBS G/L Account"})

notna(v) == v # NA
isna(v) == v = NA

\* np.select(condlist, choicelist, default): the choice of the first true condition
NpSelect(condlist, choicelist, default) ==
    IF \E i \in DOMAIN condlist : condlist[i]
    THEN choicelist[CHOOSE i \in DOMAIN condlist :
                        condlist[i] /\ \A j \in 1..(i - 1) : ~condlist[j]]
    ELSE default

FiscalTypeCostCenterFirst(row) ==
    NpSelect(<<notna(row["Cost Center Code"]) \/ notna(row["Partner Cost Center Code"]),
               notna(row["WBS Element Code"]),
               isna(row["WBS Element Code"]) /\ notna(row["Product Code"])>>,
             <<"COST CENTER", "WBS", "NO WBS">>,
             "FINANCE")

\* The same rule with no default choice.
FiscalTypeNoDefault(row) ==
    NpSelect(<<notna(row["WBS Element Code"]),
               notna(row["Cost Center Code"]) \/ notna(row["Partner Cost Center Code"]),
               isna(row["WBS Element Code"]) /\ notna(row["Product Code"])>>,
             <<"WBS", "COST CENTER", "NO WBS">>,
             NA)

FiscalType(row) ==
    NpSelect(<<notna(row["WBS Element Code"]),
               notna(row["Cost Center Code"]) \/ notna(row["Partner Cost Center Code"]),
               isna(row["WBS Element Code"]) /\ notna(row["Product Code"])>>,
             <<"WBS", "COST CENTER", "NO WBS">>,
             "FINANCE")

determine_fiscal_type(data_table) ==
    [i \in DOMAIN data_table |->
        SetCol(data_table[i], "Fiscal Type", FiscalType(data_table[i]))]

\* make_gold_actuals, the M branch: save the code, clear it, classify, restore it.
GoldActualsMNoClear(actuals_m) ==
    determine_fiscal_type(actuals_m)

GoldActualsM(actuals_m) ==
    LET saved == CopyColumn(actuals_m, "WBS Element Code Temp", "WBS Element Code")
        cleared == AssignScalar(saved, "WBS Element Code", NA)
        typed == determine_fiscal_type(cleared)
        restored == CopyColumn(typed, "WBS Element Code", "WBS Element Code Temp")
    IN DropColumn(restored, "WBS Element Code Temp")

\* frame["Amount in Company Code Currency"] *= -1 left out.
KeepAmount(frame) == frame

\* frame["Amount in Company Code Currency"] *= -1
NegateAmount(frame) ==
    [i \in DOMAIN frame |->
        SetCol(frame[i], "Amount in Company Code Currency",
               (-1) * frame[i]["Amount in Company Code Currency"])]

make_gold_actuals(actuals, meta_frames) ==
    LET renamed == RenameColumns(actuals)
        negated == NegateAmount(renamed)
        scen == AssignScalar(negated, "Scenario", "Actuals")
        with_wbs == get_wbs_attributes(scen, meta_frames.wbs_enhanced)
        with_gl == RenameColumn(
                       PdMerge(with_wbs, meta_frames.gl_to_compass, "G/L Account",
                               "left", "_x", "_y"),
                       "Compass Code", "G/L Compass Code")
        with_cc == PdMerge(with_gl, meta_frames.cost_center_to_compass,
                           "Cost Center Code", "left", "_native", "_cc")
        compass == FillNa(with_cc, "Compass Code", "Compass Code", "G/L Compass Code")
        with_text == PdMerge(compass, meta_frames.compass_codes, "Compass Code",
                             "left", "_x", "_y")
        pctr == FillNa(with_text, "Profit Center Code", "Profit Center Code_native",
                       "Profit Center Code_cc")
        dropped == DropColumns(pctr, {"G/L Compass Code", "Profit Center Code_native",
                                      "Profit Center Code_cc"})
        actuals_wbs == PdMerge(dropped, meta_frames.profit_centers_to_signatures,
                               "Profit Center Code", "left", "_x", "_y")
        actuals_non_m == SelectSeq(actuals_wbs, LAMBDA r : r["WBS Type Char"] # "M")
        actuals_m == SelectSeq(actuals_wbs, LAMBDA r : r["WBS Type Char"] = "M")
    IN PdConcat(GoldActualsM(actuals_m), determine_fiscal_type(actuals_non_m))

\* make_gold_cc_details with the profit center of the cost center filled first.
make_gold_cc_details_cc_first(cc_details, meta_frames) ==
    LET renamed == RenameColumns(cc_details)
        scen == AssignScalar(renamed, "Scenario", "Cost Center Details")
        negated == NegateAmount(scen)
        with_wbs == get_wbs_attributes(negated, meta_frames.wbs_enhanced)
        with_gl == RenameColumn(
                       PdMerge(with_wbs, meta_frames.gl_to_compass, "G/L Account",
                               "left", "_x", "_y"),
                       "Compass Code", "G/L Compass Code")
        with_cc == PdMerge(with_gl, meta_frames.cost_center_to_compass,
                           "Cost Center Code", "left", "_native", "_cc")
        pctr == FillNa(with_cc, "Profit Center Code", "Profit Center Code_cc",
                       "Profit Center Code_native")
        compass == FillNa(pctr, "Compass Code", "Compass Code", "G/L Compass Code")
        dropped == DropColumns(compass, {"G/L Compass Code", "Profit Center Code_native",
                                         "Profit Center Code_cc"})
        with_text == PdMerge(dropped, meta_frames.compass_codes, "Compass Code",
                             "left", "_x", "_y")
        cc_details_wbs == PdMerge(with_text, meta_frames.profit_centers_to_signatures,
                                  "Profit Center Code", "left", "_x", "_y")
    IN determine_fiscal_type(cc_details_wbs)

make_gold_cc_details(cc_details, meta_frames) ==
    LET renamed == RenameColumns(cc_details)
        scen == AssignScalar(renamed, "Scenario", "Cost Center Details")
        negated == NegateAmount(scen)
        with_wbs == get_wbs_attributes(negated, meta_frames.wbs_enhanced)
        with_gl == RenameColumn(
                       PdMerge(with_wbs, meta_frames.gl_to_compass, "G/L Account",
                               "left", "_x", "_y"),
                       "Compass Code", "G/L Compass Code")
        with_cc == PdMerge(with_gl, meta_frames.cost_center_to_compass,
                           "Cost Center Code", "left", "_native", "_cc")
        pctr == FillNa(with_cc, "Profit Center Code", "Profit Center Code_native",
                       "Profit Center Code_cc")
        compass == FillNa(pctr, "Compass Code", "Compass Code", "G/L Compass Code")
        dropped == DropColumns(compass, {"G/L Compass Code", "Profit Center Code_native",
                                         "Profit Center Code_cc"})
        with_text == PdMerge(dropped, meta_frames.compass_codes, "Compass Code",
                             "left", "_x", "_y")
        cc_details_wbs == PdMerge(with_text, meta_frames.profit_centers_to_signatures,
                                  "Profit Center Code", "left", "_x", "_y")
    IN determine_fiscal_type(cc_details_wbs)

\* (No staged column of the model has "date" in its name, so the date parsing
\* loop of the two committed transformers changes nothing.)
\* make_gold_commit_wbs with the compass code looked up by the G/L account the
\* row had before the WBS override.
make_gold_commit_wbs_native_gl(commit_wbs, meta_frame) ==
    LET renamed == RenameColumns(commit_wbs)
        typed == AssignScalar(renamed, "Fiscal Type", "WBS")
        no_pctr == AssignScalar(typed, "Profit Center Code", NA)
        commit_wbs_enhanced == get_wbs_attributes(no_pctr, meta_frame.wbs_enhanced)
        swapped == CopyColumn(CopyColumn(commit_wbs_enhanced, "WBS-derived G/L Account",
                                         "G/L Account"),
                              "G/L Account", "Native G/L Account")
        merged == PdMerge(swapped, meta_frame.gl_to_compass, "G/L Account",
                          "left", "_x", "_y")
        with_gl == DropColumn(CopyColumn(merged, "G/L Account", "WBS-derived G/L Account"),
                              "WBS-derived G/L Account")
    IN PdMerge(with_gl, meta_frame.compass_codes, "Compass Code", "left", "_x", "_y")

make_gold_commit_wbs(commit_wbs, meta_frame) ==
    LET renamed == RenameColumns(commit_wbs)
        typed == AssignScalar(renamed, "Fiscal Type", "WBS")
        no_pctr == AssignScalar(typed, "Profit Center Code", NA)
        commit_wbs_enhanced == get_wbs_attributes(no_pctr, meta_frame.wbs_enhanced)
        with_gl == PdMerge(commit_wbs_enhanced, meta_frame.gl_to_compass, "G/L Account",
                           "left", "_x", "_y")
    IN PdMerge(with_gl, meta_frame.compass_codes, "Compass Code", "left", "_x", "_y")

\* make_gold_commit_cc with the Fiscal Type taken from determine_fiscal_type.
make_gold_commit_cc_ordered_rule(commit_cc, meta_frame) ==
    LET renamed == RenameColumns(commit_cc)
        typed == determine_fiscal_type(renamed)
        with_gl == RenameColumn(
                       PdMerge(typed, meta_frame.gl_to_compass, "G/L Account",
                               "left", "_x", "_y"),
                       "Compass Code", "G/L Compass Code")
        with_cc == PdMerge(with_gl, meta_frame.cost_center_to_compass,
                           "Cost Center Code", "left", "_x", "_y")
        compass == FillNa(with_cc, "Compass Code", "Compass Code", "G/L Compass Code")
        dropped == DropColumns(compass, {"G/L Compass Code"})
    IN PdMerge(dropped, meta_frame.compass_codes, "Compass Code", "left", "_x", "_y")

make_gold_commit_cc(commit_cc, meta_frame) ==
    LET renamed == RenameColumns(commit_cc)
        typed == AssignScalar(renamed, "Fiscal Type", "COST CENTER")
        with_gl == RenameColumn(
                       PdMerge(typed, meta_frame.gl_to_compass, "G/L Account",
                               "left", "_x", "_y"),
                       "Compass Code", "G/L Compass Code")
        with_cc == PdMerge(with_gl, meta_frame.cost_center_to_compass,
                           "Cost Center Code", "left", "_x", "_y")
        compass == FillNa(with_cc, "Compass Code", "Compass Code", "G/L Compass Code")
        dropped == DropColumns(compass, {"G/L Compass Code"})
    IN PdMerge(dropped, meta_frame.compass_codes, "Compass Code", "left", "_x", "_y")

\* gold_dataset.insert(0, "Index", range(0, len(gold_dataset)))
InsertIndexZeroBased(frame) == [i \in DOMAIN frame |-> SetCol(frame[i], "Index", i - 1)]

\* gold_dataset.insert(0, "Index", range(1, len(gold_dataset) + 1))
InsertIndex(frame) == [i \in DOMAIN frame |-> SetCol(frame[i], "Index", i)]

\* PartitionDate assembled from the period and the year, the wrong way round.
PartitionKeysSwapped(frame) ==
    [i \in DOMAIN frame |->
        SetCol(SetCol(SetCol(frame[i],
            "Year", frame[i]["Fiscal Period"]),
            "Month", frame[i]["Fiscal Year"]),
            "PartitionDate",
            to_datetime(frame[i]["Fiscal Period"], frame[i]["Fiscal Year"], 1))]

\* Year, Month and PartitionDate of the gold dataset (lines 799-805)
PartitionKeys(frame) ==
    [i \in DOMAIN frame |->
        SetCol(SetCol(SetCol(frame[i],
            "Year", frame[i]["Fiscal Year"]),
            "Month", frame[i]["Fiscal Period"]),
            "PartitionDate",
            to_datetime(frame[i]["Fiscal Year"], frame[i]["Fiscal Period"], 1))]

\* run_transformation, from the staging frames to the indexed gold dataset
GoldDataset(tbls, m) ==
    LET meta_frame == MetaFramesOf[m]
        gold_actuals == make_gold_actuals(tbls["actuals"].rows, meta_frame)
        gold_cc_details ==
            make_gold_cc_details(tbls["cost_center_details"].rows, meta_frame)
        gold_commit_wbs ==
            make_gold_commit_wbs(tbls["commit_wbs"].rows, MetaFrameWbs(meta_frame))
        gold_commit_cc ==
            make_gold_commit_cc(tbls["commit_cc"].rows, MetaFrameCc(meta_frame))
        gold_committed ==
            AssignScalar(
                PdMerge(PdConcat(gold_commit_wbs, gold_commit_cc),
                        meta_frame.profit_centers_to_signatures,
                        "Profit Center Code", "left", "_x", "_y"),
                "Scenario", "Committed")
        all == PdConcat(PdConcat(gold_actuals, gold_cc_details), gold_committed)
    IN InsertIndex(PartitionKeys(all))

\* make_gold_actuals: the keys meta_frames must hold (ValueError otherwise)
RequiredKeys ==
    {"wbs_enhanced", "gl_to_compass", "cost_center_to_compass", "compass_codes",
     "profit_centers_to_signatures"}

\* The required-keys check of make_gold_actuals, the many_to_one validations
\* of the merges of run_transformation and of the
\* make_gold_* functions, and the months pd.to_datetime must accept.
TransformValid(tbls, m) ==
    /\ RequiredKeys \subseteq DOMAIN MetaFramesOf[m]
    /\ MergeValid(m.wbs_elements, m.wbs_codification, "WBS Type Char", "many_to_one")
    /\ MergeValid(m.profit_centers, m.signatures, "Signature Code", "many_to_one")
    /\ MergeValid(m.cost_centers, m.node_to_compass, "Standard Hierarchy Node",
                  "many_to_one")
    /\ ~link_gl_to_compass(m.gl_accounts, m.gl_accounts_to_compass).raised
    /\ IsUnique(m.wbs_elements, "WBS Element Code")
    /\ IsUnique(link_cost_center_to_compass(m.cost_centers, m.node_to_compass),
                "Cost Center Code")
    /\ IsUnique(m.compass_codes, "Compass Code")
    /\ IsUnique(m.profit_centers, "Profit Center Code")
    /\ \A k \in {"actuals", "cost_center_details", "commit_wbs", "commit_cc"} :
           \A i \in DOMAIN tbls[k].rows : ValidMonth(tbls[k].rows[i]["Period"])

\* The same COPY with the output directory emptied first.
WritePartitionsWipe(out, frame) ==
    LET parts == {<<frame[i]["Year"], frame[i]["Month"]>> : i \in DOMAIN frame}
    IN [q \in parts |-> SelectSeq(frame, LAMBDA r : <<r["Year"], r["Month"]>> = q)]

\* COPY ... TO output_path (PARTITION_BY (Year, Month), OVERWRITE_OR_IGNORE):
\* each partition of the dataset is written, the other directories stay.
WritePartitions(out, frame) ==
    LET parts == {<<frame[i]["Year"], frame[i]["Month"]>> : i \in DOMAIN frame}
    IN [q \in parts \cup DOMAIN out |->
           IF q \in parts
           THEN SelectSeq(frame, LAMBDA r : <<r["Year"], r["Month"]>> = q)
           ELSE out[q]]

(***************************************************************************)
(* run_import                                                              *)
(***************************************************************************)
EmptyMaster == [k \in TableKeySet |-> <<>>]

\* Classify(data_file.name), tabulated once over the candidate paths.
TableKeyOf == [p \in AllPaths |-> Classify(p.name)]

\* Step 2: each new file is appended to the list of its table key.
RECURSIVE Categorize(_, _)
Categorize(mt, files) ==
    IF files = <<>> THEN mt
    ELSE Categorize([mt EXCEPT ![TableKeyOf[Head(files)]] = Append(@, Head(files))],
                    Tail(files))

\* Step 3 walks self.master_tables.items(), and each list in order.
RECURSIVE AttemptsFrom(_, _)
AttemptsFrom(mt, k) ==
    IF k > Len(TableKeys) THEN <<>>
    ELSE [i \in DOMAIN mt[TableKeys[k]] |->
             [table_key |-> TableKeys[k], file_path |-> mt[TableKeys[k]][i]]]
         \o AttemptsFrom(mt, k + 1)

AttemptOrder(mt) == AttemptsFrom(mt, 1)

\* Where one file's load can fail.  "read" and "partition" fail before
\* BEGIN TRANSACTION; the others fail inside the transaction.
PreBeginFaults == {"read", "partition"}
Faults == {"none", "read", "partition", "create", "insert", "ledger", "commit"}

\* The body of the per-file try / except.  An exception raised before BEGIN
\* reaches conn.execute("ROLLBACK") with no transaction open: DuckDB raises a
\* TransactionException there, inside the handler, and it leaves run_import.
\* result: "ok" (committed), "duplicate key" / "error" (rolled back and
\* printed), "raised" (the exception left run_import).
LoadAttempt(ledger, tbls, job, fault) ==
    LET name == job.file_path.name
        df == FileFrame[job.file_path]
        snapshot == [ledger |-> ledger, tables |-> tbls]
        created == [ledger |-> ledger,
                    tables |-> CreateTableIfNotExists(tbls, job.table_key)]
        inserted == [ledger |-> ledger,
                     tables |-> InsertRows(created.tables, job.table_key, df)]
        logged == [ledger |-> LedgerInsert(ledger, name), tables |-> inserted.tables]
    IN IF fault \in PreBeginFaults
       THEN [db |-> snapshot, result |-> "raised"]
       ELSE IF fault = "create"
       THEN [db |-> Rollback(snapshot, snapshot), result |-> "error"]
       ELSE IF fault = "insert"
       THEN [db |-> Rollback(snapshot, created), result |-> "error"]
       ELSE IF DuplicateKey(ledger, name)
       THEN [db |-> Rollback(snapshot, inserted), result |-> "duplicate key"]
       ELSE IF fault = "ledger"
       THEN [db |-> Rollback(snapshot, inserted), result |-> "error"]
       ELSE IF fault = "commit"
       THEN [db |-> Rollback(snapshot, logged), result |-> "error"]
       ELSE [db |-> logged, result |-> "ok"]

\* FinancePipeline.__init__ on the same store (a new process, or a new object).
Construct ==
    /\ pc = "idle"
    /\ master_tables' = EmptyMaster
    /\ outcome' = "none"
    /\ UNCHANGED <<dbVars, pc, queue, attempts, propagated, runs, loads,
                   ledgerVars, classVars, fiscalVars, meta, output_path>>

\* run_import(files) up to the end of step 2.
RunImportWith(files) ==
    LET ledger == track_processed_files(ingested_files)
        new == get_new_files(ledger, files)
        mt == Categorize(master_tables, new)
    IN /\ pc = "idle"
       /\ Len(AttemptOrder(mt)) <= MaxQueued
       /\ ingested_files' = ledger
       /\ attempts' = <<>>
       /\ propagated' = FALSE
       /\ outcome' = "none"
       /\ IF new = <<>>
          THEN /\ master_tables' = master_tables
               /\ queue' = <<>>
               /\ pc' = "idle"
          ELSE /\ master_tables' = mt
               /\ queue' = AttemptOrder(mt)
               /\ pc' = "load"
       /\ UNCHANGED <<tables, gold_dataset, loads, classVars, fiscalVars,
                      meta, output_path>>

RunImport ==
    /\ \E files \in CandidateLists : RunImportWith(files)
    /\ UNCHANGED <<runs, ledgerVars>>

\* One pass of the inner loop of step 3: one file's try / except.
LoadFile ==
    /\ pc = "load"
    /\ \E fault \in Faults :
         LET job == Head(queue)
             r == LoadAttempt(ingested_files, tables, job, fault)
         IN /\ ingested_files' = r.db.ledger
            /\ tables' = r.db.tables
            /\ attempts' = Append(attempts, [file_path |-> job.file_path,
                                             table_key |-> job.table_key,
                                             result |-> r.result])
            /\ loads' = IF r.result = "ok"
                        THEN [loads EXCEPT ![job.file_path.name] = @ + 1]
                        ELSE loads
            /\ IF r.result = "raised"
               THEN /\ queue' = <<>>
                    /\ pc' = "idle"
                    /\ propagated' = TRUE
               ELSE /\ queue' = Tail(queue)
                    /\ pc' = IF Tail(queue) = <<>> THEN "idle" ELSE "load"
                    /\ propagated' = propagated
    /\ UNCHANGED <<gold_dataset, master_tables, runs, ledgerVars, classVars, fiscalVars,
                   transformVars>>

\* run_transformation: SELECT from each meta_* table, then SELECT * FROM each
\* of the four staging tables it reads (a missing table raises and nothing is
\* written), then the COPY and CREATE OR REPLACE TABLE gold_dataset.
RunTransformation ==
    /\ pc = "idle"
    /\ IF /\ meta # NoMeta
          /\ \A k \in {"actuals", "cost_center_details", "commit_wbs", "commit_cc"} :
                 tables[k].exists
          /\ TransformValid(tables, meta)
       THEN LET gold == GoldDataset(tables, meta)
            IN /\ gold_dataset' = [exists |-> TRUE, rows |-> gold]
               /\ output_path' = WritePartitions(output_path, gold)
               /\ outcome' = "ok"
       ELSE /\ outcome' = "raised"
            /\ UNCHANGED <<gold_dataset, output_path>>
    /\ UNCHANGED <<ingested_files, tables, importVars, ledgerVars, classVars, fiscalVars,
                   meta>>

\* The reference tables are loaded and no transformation has run.
InitTransformCheck ==
    /\ meta = MetaDefault
    /\ outcome = "none"
    /\ output_path = <<>>

InitLedgerCheck ==
    /\ data_files = <<>>
    /\ files_to_process = <<>>

InitClassCheck ==
    /\ fname = ""
    /\ category = ""

InitFiscalCheck ==
    /\ frame_in = <<>>
    /\ frame_out = <<>>
    /\ op = "none"
    /\ InitTransformCheck

\* A freshly constructed FinancePipeline.
InitPipeline ==
    /\ master_tables = EmptyMaster
    /\ pc = "idle"
    /\ queue = <<>>
    /\ attempts = <<>>
    /\ propagated = FALSE
    /\ runs = 0

\* A fresh store.
FreshStore ==
    /\ ingested_files = NoTable
    /\ tables = [k \in TableKeySet |-> NoTable]
    /\ gold_dataset = NoTable
    /\ loads = [n \in FileNames |-> 0]

\* A store into which earlier invocations loaded the two committed-cost files.
LoadedStore ==
    /\ ingested_files = [exists |-> TRUE, rows |-> <<PathCW.name, PathCC.name>>]
    /\ tables = [k \in TableKeySet |->
                    IF k = "commit_wbs" THEN [exists |-> TRUE, rows |-> FileFrame[PathCW]]
                    ELSE IF k = "commit_cc" THEN [exists |-> TRUE, rows |-> FileFrame[PathCC]]
                    ELSE NoTable]
    /\ gold_dataset = NoTable
    /\ loads = [n \in FileNames |-> IF n \in {PathCW.name, PathCC.name} THEN 1 ELSE 0]

InitStore == InitPipeline /\ (FreshStore \/ LoadedStore)

Init == InitStore /\ InitLedgerCheck /\ InitClassCheck /\ InitFiscalCheck

Next == Construct \/ RunImport \/ LoadFile \/ RunTransformation

Spec == Init /\ [][Next]_vars

(***************************************************************************)
(* Repeated import: the caller hands the same candidate list to every      *)
(* run_import.                                                             *)
(***************************************************************************)
RunImportAgain ==
    /\ runs < MaxRuns
    /\ RunImportWith(data_files)
    /\ runs' = runs + 1
    /\ UNCHANGED ledgerVars

InitIdem ==
    /\ InitStore
    /\ data_files \in CandidateLists
    /\ files_to_process = <<>>
    /\ InitClassCheck
    /\ InitFiscalCheck

NextIdem == Construct \/ RunImportAgain \/ LoadFile

SpecIdem == InitIdem /\ [][NextIdem]_vars

(***************************************************************************)
(* get_new_files over any ledger and any candidate list                    *)
(***************************************************************************)
\* The names the ledger may hold when get_new_files is called: those of the
\* candidates and of a file loaded earlier.
LedgerNames == {p.name : p \in Paths \cup {PathCW, PathCC}}

\* Ledgers the PRIMARY KEY allows: each filename at most once, in any order.
LedgerStates ==
    {NoTable} \cup
    {[exists |-> TRUE, rows |-> l] :
        l \in {m \in UNION {[1..n -> LedgerNames] : n \in 0..Cardinality(LedgerNames)} :
                  \A i, j \in DOMAIN m : i # j => m[i] # m[j]}}

\* run_import, lines 253-254: track_processed_files(), then get_new_files(data_files)
GetNewFiles ==
    /\ op = "none"
    /\ ingested_files' = track_processed_files(ingested_files)
    /\ files_to_process' = get_new_files(ingested_files', data_files)
    /\ op' = "get_new_files"
    /\ UNCHANGED <<tables, gold_dataset, importVars, data_files, classVars,
                   frame_in, frame_out, transformVars>>

InitLedger ==
    /\ InitPipeline
    /\ ingested_files \in LedgerStates
    /\ tables = [k \in TableKeySet |-> NoTable]
    /\ gold_dataset = NoTable
    /\ loads = [n \in FileNames |-> 0]
    /\ data_files \in CandidateLists
    /\ files_to_process = <<>>
    /\ InitClassCheck
    /\ InitFiscalCheck

SpecLedger == InitLedger /\ [][GetNewFiles]_vars

(***************************************************************************)
(* The classifier over sample file names                                   *)
(***************************************************************************)
MaxFragments == 2

NameFragments ==
    {"", "x", "c", "_", "CCDET", "cdet", "commit_cc", "Commit_", "Commit_WBS",
     "wbs_budget", "_LE_", "_prebud_", "_bud_", "_T0"}

RECURSIVE NamesOfFragments(_)
NamesOfFragments(n) ==
    IF n = 0 THEN {""}
    ELSE {a \o f : a \in NamesOfFragments(n - 1), f \in NameFragments}

SampleNames == NamesOfFragments(MaxFragments)

\* Step 2 of run_import for one file: the branch its lower-cased name takes.
ClassifyFile ==
    /\ category = ""
    /\ category' = Classify(fname)
    /\ UNCHANGED <<dbVars, importVars, ledgerVars, fname, fiscalVars, transformVars>>

InitClassify ==
    /\ InitPipeline
    /\ FreshStore
    /\ InitLedgerCheck
    /\ fname \in SampleNames
    /\ category = ""
    /\ InitFiscalCheck

SpecClassify == InitClassify /\ [][ClassifyFile]_vars

(***************************************************************************)
(* The fiscal-type rules over any staged frame                             *)
(***************************************************************************)
MaxRows == 2

StagedRows ==
    {SetCol(SetCol(RawRow(wbs, cc, pcc, product), "source_file", "f.csv"),
            "PartitionDate", to_datetime(2024, 3, 1)) :
        wbs \in {NA, "M100", "P200", "M555"}, cc \in {NA, "CC1"},
        pcc \in {NA, "CC2"}, product \in {NA, "PR1"}}

StagedFrames == UNION {[1..n -> StagedRows] : n \in 0..MaxRows}

GoldActuals ==
    /\ op = "none"
    /\ ~link_gl_to_compass(meta.gl_accounts, meta.gl_accounts_to_compass).raised
    /\ frame_out' = make_gold_actuals(frame_in, MetaFramesOf[meta])
    /\ op' = "actuals"
    /\ UNCHANGED <<dbVars, importVars, ledgerVars, classVars, frame_in, transformVars>>

GoldCcDetails ==
    /\ op = "none"
    /\ ~link_gl_to_compass(meta.gl_accounts, meta.gl_accounts_to_compass).raised
    /\ frame_out' = make_gold_cc_details(frame_in, MetaFramesOf[meta])
    /\ op' = "cc_details"
    /\ UNCHANGED <<dbVars, importVars, ledgerVars, classVars, frame_in, transformVars>>

InitFiscal ==
    /\ InitPipeline
    /\ FreshStore
    /\ InitLedgerCheck
    /\ InitClassCheck
    /\ frame_in \in StagedFrames
    /\ frame_out = <<>>
    /\ op = "none"
    /\ InitTransformCheck

NextFiscal == GoldActuals \/ GoldCcDetails

SpecFiscal == InitFiscal /\ [][NextFiscal]_vars

(***************************************************************************)
(* The gold transformer over staged frames and reference tables            *)
(***************************************************************************)
MaxStaged == 2    \* rows of a staged frame

\* Staged rows: WBS elements that are M-typed, P-typed, unknown or absent;
\* G/L accounts with and without a compass code; cost centers with and
\* without one; amounts of either sign; several periods.
StagedRecords ==
    {RawRecord("M100", NA, NA, "PR1", "GL1", NA, 100, 2024, 3, "D"),
     RawRecord("M100", "CC1", NA, NA, "GL1", "PC1", -5, 2024, 3, "D"),
     RawRecord("P200", NA, NA, NA, "GL1", "PC1", 40, 2024, 12, "D"),
     RawRecord("P200", "CC1", NA, NA, "GL1", NA, 7, 2025, 1, "D"),
     RawRecord("X900", NA, NA, NA, "GL2", NA, 0, 2024, 3, "D"),
     RawRecord(NA, "CC1", NA, NA, NA, NA, 100, 2024, 3, "D"),
     RawRecord(NA, NA, "CC2", NA, "GL1", NA, 3, 2024, 3, "D"),
     RawRecord(NA, NA, NA, "PR1", NA, NA, 9, 2024, 3, "D"),
     RawRecord(NA, NA, NA, NA, NA, "PC1", -1, 2024, 3, "D"),
     RawRecord(NA, "CC2", NA, NA, "GL2", NA, 5, 2024, 3, "D")}

\* The document number of the i-th row of a file.
DocumentNumber(i) == "D" \o Digit(i)

\* The staged rows of one file p: its rows numbered, stamped with source_file
\* and PartitionDate as ReadFile does.
StagedFrom(p, records) ==
    [i \in DOMAIN records |->
        SetCol(SetCol(SetCol(records[i], "Ref. document number", DocumentNumber(i)),
            "source_file", p.name),
            "PartitionDate",
            to_datetime(records[i]["Fiscal Year"], records[i]["Period"], 1))]

RecordLists == UNION {[1..n -> StagedRecords] : n \in 0..MaxStaged}

\* A store into which earlier invocations loaded an actuals file and a
\* cost-center-details file (with the rows given), the two committed-cost
\* files and a WBS budget file.
StoreOf(records) ==
    [k \in TableKeySet |->
        CASE k = "actuals" -> [exists |-> TRUE, rows |-> StagedFrom(PathA1, records)]
          [] k = "cost_center_details" ->
                 [exists |-> TRUE, rows |-> StagedFrom(PathCD, records)]
          [] k = "commit_wbs" -> [exists |-> TRUE, rows |-> FileFrame[PathCW]]
          [] k = "commit_cc" -> [exists |-> TRUE, rows |-> FileFrame[PathCC]]
          [] k = "wbs_budget" -> [exists |-> TRUE, rows |-> FileFrame[PathWB]]
          [] OTHER -> NoTable]

\* get_wbs_attributes(frame, wbs_enhanced) on a renamed staged frame
GetWbsAttributes ==
    /\ op = "none"
    /\ frame_out' = get_wbs_attributes(RenameColumns(frame_in),
                                       MetaFramesOf[meta].wbs_enhanced)
    /\ op' = "wbs_attributes"
    /\ UNCHANGED <<dbVars, importVars, ledgerVars, classVars, frame_in, transformVars>>

GoldCommitWbs ==
    /\ op = "none"
    /\ ~link_gl_to_compass(meta.gl_accounts, meta.gl_accounts_to_compass).raised
    /\ frame_out' = make_gold_commit_wbs(frame_in, MetaFrameWbs(MetaFramesOf[meta]))
    /\ op' = "commit_wbs"
    /\ UNCHANGED <<dbVars, importVars, ledgerVars, classVars, frame_in, transformVars>>

GoldCommitCc ==
    /\ op = "none"
    /\ ~link_gl_to_compass(meta.gl_accounts, meta.gl_accounts_to_compass).raised
    /\ frame_out' = make_gold_commit_cc(frame_in, MetaFrameCc(MetaFramesOf[meta]))
    /\ op' = "commit_cc"
    /\ UNCHANGED <<dbVars, importVars, ledgerVars, classVars, frame_in, transformVars>>

InitGold ==
    /\ InitPipeline
    /\ InitLedgerCheck
    /\ InitClassCheck
    /\ \E records \in RecordLists :
         /\ frame_in = StagedFrom(PathA1, records)
         /\ tables = StoreOf(records)
    /\ ingested_files = [exists |-> TRUE,
                         rows |-> <<PathCW.name, PathCC.name, PathA1.name,
                                    PathCD.name, PathWB.name>>]
    /\ loads = [n \in FileNames |->
                   IF n \in {PathCW.name, PathCC.name, PathA1.name, PathCD.name,
                             PathWB.name}
                   THEN 1 ELSE 0]
    /\ gold_dataset = NoTable
    /\ frame_out = <<>>
    /\ op = "none"
    /\ meta \in MetaChoices
    /\ outcome = "none"
    /\ output_path = <<>>

\* Each function of the gold transformer applied to the staged frame.
NextGold ==
    \/ GetWbsAttributes
    \/ GoldActuals
    \/ GoldCcDetails
    \/ GoldCommitWbs
    \/ GoldCommitCc

SpecGold == InitGold /\ [][NextGold]_vars

\* run_transformation over the store.
SpecTransform == InitGold /\ [][RunTransformation]_vars

(***************************************************************************)
(* End to end: imports of the scenario's files into a fresh store, then    *)
(* the transformation.                                                     *)
(***************************************************************************)
\* The lists a caller may make of the scenario's files, in any order.
ScenarioLists ==
    {l \in UNION {[1..n -> ScenarioPaths] : n \in 0..Cardinality(ScenarioPaths)} :
        \A i, j \in DOMAIN l : i # j => l[i] # l[j]}

RunImportScenario ==
    /\ \E files \in ScenarioLists : RunImportWith(files)
    /\ UNCHANGED <<runs, ledgerVars>>

InitScenario ==
    /\ InitPipeline
    /\ FreshStore
    /\ InitLedgerCheck
    /\ InitClassCheck
    /\ InitFiscalCheck

NextScenario == Construct \/ RunImportScenario \/ LoadFile \/ RunTransformation

SpecScenario == InitScenario /\ [][NextScenario]_vars

(***************************************************************************)
(* enhance_wbs_elements over any list of WBS elements                      *)
(***************************************************************************)
MaxElements == 3    \* rows of the WBS element table

\* Rows of meta_wbs_elements: level-one elements, elements below them, and a
\* level-one element whose name cell is empty.
WbsElementRows ==
    {WbsElement("M100", "Media", 1, "GL2", NA),
     WbsElement("P200", "Promo", 2, NA, "PC2"),
     WbsElement("P300", "Print", 1, NA, NA),
     WbsElement("M400", NA, 1, NA, NA),
     WbsElement("X500", "Extra", 3, NA, NA)}

\* The table in any order, each element at most once.
WbsElementLists ==
    {l \in UNION {[1..n -> WbsElementRows] : n \in 0..MaxElements} :
        \A i, j \in DOMAIN l : i # j => l[i] # l[j]}

\* run_transformation, lines 696-698: enhance_wbs_elements(wbs_elements,
\* wbs_codification)
EnhanceWbsElements ==
    /\ op = "none"
    /\ MergeValid(frame_in, meta.wbs_codification, "WBS Type Char", "many_to_one")
    /\ frame_out' = enhance_wbs_elements(frame_in, meta.wbs_codification)
    /\ op' = "enhance_wbs_elements"
    /\ UNCHANGED <<dbVars, importVars, ledgerVars, classVars, frame_in, transformVars>>

InitEnhance ==
    /\ InitPipeline
    /\ FreshStore
    /\ InitLedgerCheck
    /\ InitClassCheck
    /\ frame_in \in WbsElementLists
    /\ frame_out = <<>>
    /\ op = "none"
    /\ InitTransformCheck

SpecEnhance == InitEnhance /\ [][EnhanceWbsElements]_vars

(***************************************************************************)
(* link_cost_center_to_compass over any cost-center table                  *)
(***************************************************************************)
\* Rows of meta_cost_centers: two cost centers under node N1, one under N5
\* and one under N9.
CostCenterRows ==
    {Triple("Cost Center Code", "CC1", "Profit Center Code", "PC1",
            "Standard Hierarchy Node", "N1"),
     Triple("Cost Center Code", "CC2", "Profit Center Code", "PC2",
            "Standard Hierarchy Node", "N9"),
     Triple("Cost Center Code", "CC3", "Profit Center Code", "PC1",
            "Standard Hierarchy Node", "N1"),
     Triple("Cost Center Code", "CC7", "Profit Center Code", "PC9",
            "Standard Hierarchy Node", "N5")}

CostCenterLists ==
    {l \in UNION {[1..n -> CostCenterRows] : n \in 0..MaxElements} :
        \A i, j \in DOMAIN l : i # j => l[i] # l[j]}

\* Contents of meta_node_to_compass: one node mapped, two nodes mapped, and a
\* node listed twice.
NodeToCompassChoices ==
    {<<Pair("Standard Hierarchy Node", "N1", "Compass Code", "CY")>>,
     <<Pair("Standard Hierarchy Node", "N5", "Compass Code", "CX"),
       Pair("Standard Hierarchy Node", "N1", "Compass Code", "CY")>>,
     <<Pair("Standard Hierarchy Node", "N1", "Compass Code", "CY"),
       Pair("Standard Hierarchy Node", "N1", "Compass Code", "CX")>>}

\* run_transformation, lines 702-704: link_cost_center_to_compass(cost_centers,
\* node_to_compass); validate="many_to_one" raises on a node listed twice.
LinkCostCenterToCompass ==
    /\ op = "none"
    /\ IF MergeValid(frame_in, meta.node_to_compass, "Standard Hierarchy Node",
                     "many_to_one")
       THEN /\ frame_out' = link_cost_center_to_compass(frame_in, meta.node_to_compass)
            /\ op' = "link_cost_center_to_compass"
       ELSE /\ frame_out' = <<>>
            /\ op' = "raised"
    /\ UNCHANGED <<dbVars, importVars, ledgerVars, classVars, frame_in, transformVars>>

InitLink ==
    /\ InitPipeline
    /\ FreshStore
    /\ InitLedgerCheck
    /\ InitClassCheck
    /\ frame_in \in CostCenterLists
    /\ frame_out = <<>>
    /\ op = "none"
    /\ \E n \in NodeToCompassChoices :
           meta = [MetaDefault EXCEPT !.cost_centers = frame_in, !.node_to_compass = n]
    /\ outcome = "none"
    /\ output_path = <<>>

SpecLink == InitLink /\ [][LinkCostCenterToCompass]_vars

(***************************************************************************)
(* Re-runs: the metadata command replaces the reference tables between     *)
(* transformations, and the output directory may hold an earlier dataset.  *)
(***************************************************************************)
\* FinanceMetadata.move_data_to_db: every meta_* table is dropped and created
\* again from the files of the metadata directory.
MoveDataToDb ==
    /\ pc = "idle"
    /\ \E m \in MetaChoices : meta' = m
    /\ UNCHANGED <<dbVars, importVars, ledgerVars, classVars, fiscalVars,
                   outcome, output_path>>

\* Staged rows of the re-run scenario: periods 2024-03, 2024-12 and 2025-01.
RerunRecords ==
    {RawRecord("M100", NA, NA, "PR1", "GL1", NA, 100, 2024, 3, "D"),
     RawRecord("P200", NA, NA, NA, "GL1", "PC1", 40, 2024, 12, "D"),
     RawRecord("P200", "CC1", NA, NA, "GL1", NA, 7, 2025, 1, "D")}

RerunLists == UNION {[1..n -> RerunRecords] : n \in 0..MaxStaged}

\* What the output directory may hold before the first transformation of the
\* model: nothing, or the partitions an earlier transformation wrote there.
EarlierOutputs ==
    {<<>>} \cup
    {WritePartitions(<<>>, GoldDataset(StoreOf(<<r>>), MetaDefault)) : r \in RerunRecords}

InitRerun ==
    /\ InitPipeline
    /\ InitLedgerCheck
    /\ InitClassCheck
    /\ \E records \in RerunLists :
         /\ frame_in = StagedFrom(PathA1, records)
         /\ tables = StoreOf(records)
    /\ ingested_files = [exists |-> TRUE,
                         rows |-> <<PathCW.name, PathCC.name, PathA1.name,
                                    PathCD.name, PathWB.name>>]
    /\ loads = [n \in FileNames |->
                   IF n \in {PathCW.name, PathCC.name, PathA1.name, PathCD.name,
                             PathWB.name}
                   THEN 1 ELSE 0]
    /\ gold_dataset = NoTable
    /\ frame_out = <<>>
    /\ op = "none"
    /\ meta \in MetaChoices \cup {NoMeta}
    /\ outcome = "none"
    /\ output_path \in EarlierOutputs

NextRerun == RunTransformation \/ MoveDataToDb

SpecRerun == InitRerun /\ [][NextRerun]_vars

(***************************************************************************)
(* Invocations of run_import on one object, each with its own candidates   *)
(***************************************************************************)
\* run_import(data_files): the call's candidate list and the list that
\* get_new_files returned to it are kept, to compare the attempts with them.
RunImportCall ==
    /\ runs < MaxRuns
    /\ \E files \in CandidateLists :
          /\ RunImportWith(files)
          /\ data_files' = files
          /\ files_to_process' =
                 get_new_files(track_processed_files(ingested_files), files)
    /\ runs' = runs + 1

NextCalls == Construct \/ RunImportCall \/ LoadFile

SpecCalls == Init /\ [][NextCalls]_vars

(***************************************************************************)
(* Properties                                                              *)
(***************************************************************************)
NamesOf(files) == {files[i].name : i \in DOMAIN files}

\* The table key each known file name is routed to.
KeyOfName == [n \in FileNames |-> Classify(n)]

\* Number of positions of sequence s holding x.
Count(s, x) == Cardinality({i \in DOMAIN s : s[i] = x})

\* The rows of staging table k stamped with source_file n, in table order.
Stamped(k, n) == SelectSeq(tables[k].rows, LAMBDA r : r["source_file"] = n)

InLedger(n) == n \in Range(ingested_files.rows)

\* The rows of filename n are staged exactly once: its own table holds the rows
\* of one file of that name, once, and no other table holds a row of it.
StagedOnce(n) ==
    /\ \E p \in Paths \cup {PathCW, PathCC} :
          /\ p.name = n
          /\ Stamped(KeyOfName[n], n) = FileFrame[p]
    /\ \A k \in TableKeySet \ {KeyOfName[n]} : Stamped(k, n) = <<>>

NotStaged(n) == \A k \in TableKeySet : Stamped(k, n) = <<>>

LastAttempt == attempts[Len(attempts)]

\* A step that is one file attempt.
IsAttemptStep == Len(attempts') = Len(attempts) + 1

----
\* C1: Idempotence of ingestion.  When run_import is run again and again with
\* the same candidate list, every candidate filename that is in the ledger is
\* there exactly once and its rows are staged exactly once; a candidate that
\* is not in the ledger has no staged row; and once a filename is in the
\* ledger no later step loads it again or changes its staged rows.
C1_StateOnce ==
    \A n \in NamesOf(data_files) :
        /\ Count(ingested_files.rows, n) <= 1
        /\ InLedger(n) => StagedOnce(n) /\ loads[n] = 1
        /\ ~InLedger(n) => NotStaged(n) /\ loads[n] = 0

C1_SecondRunLoadsNothing ==
    \A n \in NamesOf(data_files) :
        InLedger(n) =>
            /\ loads'[n] = loads[n]
            /\ \A k \in TableKeySet :
                  SelectSeq(tables'[k].rows, LAMBDA r : r["source_file"] = n)
                      = Stamped(k, n)
            /\ Count(ingested_files'.rows, n) = 1

\* C1: the two parts together.
C1_Idempotent == [] C1_StateOnce /\ [][C1_SecondRunLoadsNothing]_vars

\* C1 witness: the second run_import of the same list has returned, a
\* candidate of it is ledgered and loaded once, and the run attempted nothing.
C1_Witness ==
    /\ runs = 2
    /\ pc = "idle"
    /\ attempts = <<>>
    /\ \E n \in NamesOf(data_files) : InLedger(n) /\ loads[n] = 1 /\ StagedOnce(n)

----
\* C2: Per-file atomicity.  In every state between file attempts a filename is
\* in ingested_files if and only if the rows stamped with it are in its
\* staging table (the rows of one file of that name, once); and a file attempt
\* that does not commit leaves ingested_files and every staging table
\* (existence included) exactly as they were.
C2_LedgerIffRows ==
    \A n \in FileNames :
        /\ InLedger(n) => StagedOnce(n)
        /\ ~InLedger(n) => NotStaged(n)

C2_FailedAttemptChangesNothing ==
    (IsAttemptStep /\ attempts'[Len(attempts')].result # "ok")
        => (ingested_files' = ingested_files /\ tables' = tables)

\* C2: the two parts together.
C2_Atomic == [] C2_LedgerIffRows /\ [][C2_FailedAttemptChangesNothing]_vars

\* C2 witness: a file attempt failed inside the transaction, after the
\* attempt before it committed, and the failed file's table does not exist.
C2_Witness ==
    /\ Len(attempts) >= 2
    /\ LastAttempt.result = "error"
    /\ attempts[Len(attempts) - 1].result = "ok"
    /\ ~tables[LastAttempt.table_key].exists
    /\ ~InLedger(LastAttempt.file_path.name)

----
\* C3 (as claimed): a per-file failure never aborts the batch: no exception
\* leaves run_import, whichever step of a file's load fails.
C3_NoErrorPropagates ==
    /\ ~propagated
    /\ \A i \in DOMAIN attempts : attempts[i].result # "raised"

----
\* C4: At-most-once loading.  Over any sequence of run_import invocations the
\* number of committed loads of any one filename is at most 1.
C4_AtMostOnce == \A n \in FileNames : loads[n] <= 1

\* C4 witness: one invocation attempted two paths with the same file name; the
\* first committed and the second did not.
C4_Witness ==
    \E i, j \in DOMAIN attempts :
        /\ i < j
        /\ attempts[i].file_path # attempts[j].file_path
        /\ attempts[i].file_path.name = attempts[j].file_path.name
        /\ attempts[i].result = "ok"
        /\ attempts[j].result # "ok"
        /\ loads[attempts[i].file_path.name] = 1

----
\* C5: File classification is first-match-wins over the lower-cased filename
\* in the order ccdet, commit_cc, commit_wbs, wbs_budget, _le_, _prebud_,
\* _bud_, _t0, else actuals.
RoutingOrder ==
    <<<<"ccdet", "cost_center_details">>,
      <<"commit_cc", "commit_cc">>,
      <<"commit_wbs", "commit_wbs">>,
      <<"wbs_budget", "wbs_budget">>,
      <<"_le_", "forecast_live_estimate">>,
      <<"_prebud_", "forecast_pre_budget">>,
      <<"_bud_", "forecast_budget">>,
      <<"_t0", "forecast_trend">>>>

C5_FirstMatchWins ==
    category # "" =>
        LET f == Lower(fname)
            hits == {i \in DOMAIN RoutingOrder : Contains(RoutingOrder[i][1], f)}
        IN /\ hits = {} => category = "actuals"
           /\ hits # {} =>
                 category = RoutingOrder[CHOOSE i \in hits : \A j \in hits : i <= j][2]
           /\ (Contains("commit_cc", f) /\ Contains("ccdet", f))
                 => category = "cost_center_details"

\* C5 witness: a name holding both commit_cc and ccdet, in mixed case, has
\* been routed to cost_center_details.
C5_Witness ==
    /\ category = "cost_center_details"
    /\ Contains("commit_cc", Lower(fname))
    /\ Contains("ccdet", Lower(fname))
    /\ fname # Lower(fname)

----
\* C6: get_new_files returns exactly the candidates whose file name is absent
\* from ingested_files, in candidate order.
C6_ExactlyTheNew ==
    op = "get_new_files" =>
        LET keep == {i \in DOMAIN data_files : ~InLedger(data_files[i].name)}
        IN /\ Len(files_to_process) = Cardinality(keep)
           /\ \A i \in keep :
                 files_to_process[Cardinality({j \in keep : j <= i})] = data_files[i]

\* C6 witness: of two candidates the first is ledgered and dropped, the second
\* is returned.
C6_Witness ==
    /\ op = "get_new_files"
    /\ Len(data_files) = 2
    /\ InLedger(data_files[1].name)
    /\ files_to_process = <<data_files[2]>>

----
\* C7: The ledger is append-only and duplicate-free: ingested_files holds each
\* filename at most once, and every step of run_import and run_transformation
\* keeps the existing entries, in place, so the ledgered filenames only grow.
C7_NoDuplicate ==
    \A n \in FileNames : Count(ingested_files.rows, n) <= 1

C7_EntriesKept ==
    /\ ingested_files.exists => ingested_files'.exists
    /\ Len(ingested_files.rows) <= Len(ingested_files'.rows)
    /\ SubSeq(ingested_files'.rows, 1, Len(ingested_files.rows)) = ingested_files.rows

\* C7: the two parts together.
C7_AppendOnly == [] C7_NoDuplicate /\ [][C7_EntriesKept]_vars

\* C7 witness: the ledger was created by run_import, holds two files it
\* loaded, and run_transformation has written the gold table since.
C7_Witness ==
    /\ Len(ingested_files.rows) >= 2
    /\ \A n \in Range(ingested_files.rows) : loads[n] = 1
    /\ InLedger(PathA1.name)
    /\ gold_dataset.exists

----
\* C8 (as claimed): run_import never attempts to record a filename that is
\* already in the ledger: the duplicate-key error is not reachable.
C8_NoDuplicateKeyError ==
    \A i \in DOMAIN attempts : attempts[i].result # "duplicate key"

----
\* C9: determine_fiscal_type assigns WBS if the WBS code is present; otherwise
\* COST CENTER if Cost Center Code or Partner Cost Center Code is present;
\* otherwise NO WBS if Product Code is present; otherwise FINANCE; one value
\* per row, for every row it is applied to (all cost-center-details rows and
\* the actuals rows outside the M carve-out).
FiscalTypes == {"WBS", "COST CENTER", "NO WBS", "FINANCE"}

OrderedRule(wbs, cc, pcc, product) ==
    IF wbs # NA THEN "WBS"
    ELSE IF cc # NA \/ pcc # NA THEN "COST CENTER"
    ELSE IF product # NA THEN "NO WBS"
    ELSE "FINANCE"

C9_FiscalType ==
    op \in {"actuals", "cc_details"} =>
        /\ Len(frame_out) = Len(frame_in)
        /\ \A i \in DOMAIN frame_out :
              LET r == frame_out[i] IN
              /\ r["Fiscal Type"] \in FiscalTypes
              /\ (op = "cc_details" \/ r["WBS Type Char"] # "M") =>
                    r["Fiscal Type"] =
                        OrderedRule(r["WBS Element Code"], r["Cost Center Code"],
                                    r["Partner Cost Center Code"], r["Product Code"])

\* C9 witness: a classified cost-center-details frame holding a row with only
\* a partner cost center (COST CENTER) and a row with only a product (NO WBS).
C9_Witness ==
    /\ op = "cc_details"
    /\ \E i, j \in DOMAIN frame_out :
          /\ frame_out[i]["Fiscal Type"] = "COST CENTER"
          /\ frame_out[i]["Cost Center Code"] = NA
          /\ frame_out[i]["Partner Cost Center Code"] # NA
          /\ frame_out[j]["Fiscal Type"] = "NO WBS"
          /\ frame_out[j]["Product Code"] # NA

----
\* C10: M-type carve-out.  An actuals row whose WBS Type Char is "M" is
\* classified as if its WBS Element Code were absent (COST CENTER, NO WBS or
\* FINANCE, never WBS), and its WBS Element Code in the gold row is the value
\* it had before classification.
MTyped(code) == code \in WbsElementCodes /\ WbsTypeChar(code) = "M"

C10_MCarveOut ==
    op = "actuals" =>
        LET staged_m == SelectSeq(frame_in, LAMBDA r : MTyped(r["WBS Element"]))
            gold_m == SelectSeq(frame_out, LAMBDA r : r["WBS Type Char"] = "M")
        IN /\ Len(gold_m) = Len(staged_m)
           /\ \A i \in DOMAIN gold_m :
                 /\ gold_m[i]["Fiscal Type"] =
                        OrderedRule(NA, gold_m[i]["Cost Center Code"],
                                    gold_m[i]["Partner Cost Center Code"],
                                    gold_m[i]["Product Code"])
                 /\ gold_m[i]["Fiscal Type"] # "WBS"
                 /\ gold_m[i]["WBS Element Code"] = staged_m[i]["WBS Element"]
                 /\ gold_m[i]["WBS Element Code"] # NA
                 /\ "WBS Element Code Temp" \notin DOMAIN gold_m[i]

\* C10 witness: a gold actuals frame with an M-typed row classified NO WBS that
\* still carries its WBS element code, beside a non-M row classified WBS.
C10_Witness ==
    /\ op = "actuals"
    /\ \E i, j \in DOMAIN frame_out :
          /\ frame_out[i]["WBS Type Char"] = "M"
          /\ frame_out[i]["WBS Element Code"] = "M100"
          /\ frame_out[i]["Fiscal Type"] = "NO WBS"
          /\ frame_out[j]["WBS Type Char"] = "P"
          /\ frame_out[j]["Fiscal Type"] = "WBS"

----
\* The WBS element carrying the row's code, looked up in the reference table.
WbsDerived(m, code, col) ==
    IF \E i \in DOMAIN m.wbs_elements : m.wbs_elements[i]["WBS Element Code"] = code
    THEN LET i == CHOOSE j \in DOMAIN m.wbs_elements :
                      m.wbs_elements[j]["WBS Element Code"] = code
         IN m.wbs_elements[i][col]
    ELSE NA

\* value if it is not NA, otherwise fallback
Coalesce(value, fallback) == IF value # NA THEN value ELSE fallback

\* C11: after get_wbs_attributes every row carries the WBS-derived G/L account
\* when that is not null and its raw G/L account otherwise, and likewise the
\* WBS-derived profit center or else its raw one; a row whose code matches no
\* WBS element keeps both raw values.
C11_WbsOverride ==
    op = "wbs_attributes" =>
        /\ Len(frame_out) = Len(frame_in)
        /\ \A i \in DOMAIN frame_in :
             LET raw == RenameRow(frame_in[i])
                 code == raw["WBS Element Code"]
             IN /\ frame_out[i]["G/L Account"] =
                       Coalesce(WbsDerived(meta, code, "WBS G/L Account"),
                                raw["G/L Account"])
                /\ frame_out[i]["Profit Center Code"] =
                       Coalesce(WbsDerived(meta, code, "WBS Profit Center Code"),
                                raw["Profit Center Code"])
                /\ (\A j \in DOMAIN meta.wbs_elements :
                        meta.wbs_elements[j]["WBS Element Code"] # code)
                   => /\ frame_out[i]["G/L Account"] = raw["G/L Account"]
                      /\ frame_out[i]["Profit Center Code"] = raw["Profit Center Code"]

\* A frame where one row's G/L account was overridden, one row's profit center
\* was overridden, and one row matched no WBS element and kept a raw G/L account.
C11_Witness ==
    /\ op = "wbs_attributes"
    /\ \E i \in DOMAIN frame_in :
         /\ frame_out[i]["G/L Account"] # RenameRow(frame_in[i])["G/L Account"]
         /\ frame_out[i]["G/L Account"] = "GL2"
    /\ \E i \in DOMAIN frame_in :
         /\ frame_in[i]["WBS Element"] = "X900"
         /\ frame_out[i]["G/L Account"] = "GL2"
         /\ meta = MetaDefault

----
\* The compass code the reference tables give for a G/L account: the code
\* meta_gl_to_compass holds for an account listed in meta_gl_accounts.
CompassOfGl(m, gl) ==
    IF /\ \E i \in DOMAIN m.gl_accounts : m.gl_accounts[i]["G/L Account"] = gl
       /\ \E i \in DOMAIN m.gl_accounts_to_compass :
              m.gl_accounts_to_compass[i]["G/L Account"] = gl
    THEN LET i == CHOOSE j \in DOMAIN m.gl_accounts_to_compass :
                      m.gl_accounts_to_compass[j]["G/L Account"] = gl
         IN m.gl_accounts_to_compass[i]["Compass Code"]
    ELSE NA

\* The compass code the reference tables give for a cost center, through its
\* standard hierarchy node.
CompassOfCostCenter(m, cc) ==
    IF \E i \in DOMAIN m.cost_centers, j \in DOMAIN m.node_to_compass :
           /\ m.cost_centers[i]["Cost Center Code"] = cc
           /\ m.node_to_compass[j]["Standard Hierarchy Node"] =
                  m.cost_centers[i]["Standard Hierarchy Node"]
    THEN LET ij == CHOOSE q \in (DOMAIN m.cost_centers) \X (DOMAIN m.node_to_compass) :
                       /\ m.cost_centers[q[1]]["Cost Center Code"] = cc
                       /\ m.node_to_compass[q[2]]["Standard Hierarchy Node"] =
                              m.cost_centers[q[1]]["Standard Hierarchy Node"]
         IN m.node_to_compass[ij[2]]["Compass Code"]
    ELSE NA

\* C12: in the gold rows of actuals, cost-center details and committed cost
\* centers the Compass Code is the one mapped from the row's G/L Account
\* whenever that is not null, and the one mapped from its Cost Center Code
\* only otherwise.
C12_GlFirst ==
    op \in {"actuals", "cc_details", "commit_cc"} =>
        \A i \in DOMAIN frame_out :
            frame_out[i]["Compass Code"] =
                Coalesce(CompassOfGl(meta, frame_out[i]["G/L Account"]),
                         CompassOfCostCenter(meta, frame_out[i]["Cost Center Code"]))

----
\* The G/L-to-compass reference table holds two compass codes for one account.
TwoCompassCodes(m) ==
    \E i, j \in DOMAIN m.gl_accounts_to_compass :
        /\ m.gl_accounts_to_compass[i]["G/L Account"] =
               m.gl_accounts_to_compass[j]["G/L Account"]
        /\ m.gl_accounts_to_compass[i]["Compass Code"] #
               m.gl_accounts_to_compass[j]["Compass Code"]

\* C13: when the G/L-to-compass reference table holds two compass codes for one
\* G/L account, link_gl_to_compass raises instead of returning a frame, and a
\* run_transformation on these tables ends raised with no gold dataset made
\* and nothing written.
C13_CardinalityRaises ==
    TwoCompassCodes(meta) =>
        /\ link_gl_to_compass(meta.gl_accounts, meta.gl_accounts_to_compass).raised
        /\ link_gl_to_compass(meta.gl_accounts, meta.gl_accounts_to_compass).frame = <<>>
        /\ outcome \in {"none", "raised"}
        /\ ~gold_dataset.exists
        /\ DOMAIN output_path = {}

\* run_transformation ran on reference tables with two compass codes for GL1.
C13_Witness ==
    /\ TwoCompassCodes(meta)
    /\ outcome = "raised"

----
\* The number of data rows of all the files of the scenario together.
RECURSIVE RowsOfFiles(_)
RowsOfFiles(files) ==
    IF files = {} THEN 0
    ELSE LET p == CHOOSE q \in files : TRUE
         IN Len(FileContent(p)) + RowsOfFiles(files \ {p})

\* C14: from an empty ledger, once run_import has loaded the two actuals files
\* and the committed-WBS file and run_transformation has run, the ledger holds
\* exactly 3 entries and the gold dataset holds as many rows as the three
\* files together.
C14_EndToEnd ==
    (/\ \A p \in ScenarioPaths : loads[p.name] = 1
     /\ outcome # "none")
    => /\ Len(ingested_files.rows) = 3
       /\ gold_dataset.exists
       /\ Len(gold_dataset.rows) = RowsOfFiles(ScenarioPaths)

----
\* The place of a scenario in the final concatenation.
ScenarioRank(scenario) ==
    CASE scenario = "Actuals" -> 1
      [] scenario = "Cost Center Details" -> 2
      [] scenario = "Committed" -> 3
      [] OTHER -> 4

\* C15: in a gold dataset of N rows the Index values are exactly 1..N, each
\* used once, the k-th row of the final order (actuals, then cost-center
\* details, then committed rows) carrying Index k.
C15_DenseIndex ==
    gold_dataset.exists =>
        LET rows == gold_dataset.rows
        IN /\ {rows[i]["Index"] : i \in DOMAIN rows} = 1..Len(rows)
           /\ \A i, j \in DOMAIN rows : rows[i]["Index"] = rows[j]["Index"] => i = j
           /\ \A i \in DOMAIN rows : rows[i]["Index"] = i
           /\ \A i, j \in DOMAIN rows :
                  i < j => ScenarioRank(rows[i]["Scenario"]) <= ScenarioRank(rows[j]["Scenario"])

\* A gold dataset of six rows holding all three scenarios.
C15_Witness ==
    /\ outcome = "ok"
    /\ gold_dataset.exists
    /\ Len(gold_dataset.rows) = 6
    /\ {gold_dataset.rows[i]["Scenario"] : i \in DOMAIN gold_dataset.rows} =
           {"Actuals", "Cost Center Details", "Committed"}

----
Scenarios ==
    {"Actuals", "Committed", "Cost Center Details", "Budget", "Live Estimate",
     "Pre-Budget", "Trend"}

\* C16: every gold row carries one Scenario, not null and one of Actuals,
\* Committed, Cost Center Details, Budget, Live Estimate, Pre-Budget, Trend,
\* and one Fiscal Type, not null and one of WBS, COST CENTER, NO WBS, FINANCE.
C16_ScenarioAndFiscalType ==
    \A i \in DOMAIN gold_dataset.rows :
        LET row == gold_dataset.rows[i]
        IN /\ "Scenario" \in DOMAIN row
           /\ row["Scenario"] # NA
           /\ row["Scenario"] \in Scenarios
           /\ "Fiscal Type" \in DOMAIN row
           /\ row["Fiscal Type"] # NA
           /\ row["Fiscal Type"] \in FiscalTypes

\* A gold dataset in which all four fiscal types and three scenarios occur.
C16_Witness ==
    /\ gold_dataset.exists
    /\ {gold_dataset.rows[i]["Fiscal Type"] : i \in DOMAIN gold_dataset.rows} = FiscalTypes
    /\ \E i \in DOMAIN gold_dataset.rows : gold_dataset.rows[i]["Scenario"] = "Committed"
    /\ \E i \in DOMAIN gold_dataset.rows : gold_dataset.rows[i]["Scenario"] = "Actuals"

----
\* The Scenario the budget and forecast categories are to be stamped with.
ScenarioOfCategory(k) ==
    CASE k = "wbs_budget" -> "Budget"
      [] k = "forecast_budget" -> "Budget"
      [] k = "forecast_live_estimate" -> "Live Estimate"
      [] k = "forecast_pre_budget" -> "Pre-Budget"
      [] k = "forecast_trend" -> "Trend"
      [] OTHER -> "Unknown"

\* C17: after run_transformation every row staged in wbs_budget,
\* forecast_budget, forecast_live_estimate, forecast_pre_budget and
\* forecast_trend is in the gold dataset, stamped with the Scenario of its
\* category.
C17_EveryCategory ==
    outcome = "ok" =>
        \A k \in {"wbs_budget", "forecast_budget", "forecast_live_estimate",
                  "forecast_pre_budget", "forecast_trend"} :
            \A i \in DOMAIN tables[k].rows :
                \E j \in DOMAIN gold_dataset.rows :
                    /\ gold_dataset.rows[j]["source_file"] = tables[k].rows[i]["source_file"]
                    /\ gold_dataset.rows[j]["Ref. document number"] =
                           tables[k].rows[i]["Ref. document number"]
                    /\ gold_dataset.rows[j]["Scenario"] = ScenarioOfCategory(k)

----
\* The rows of the output frame made from the staged row of document number doc.
GoldRowsOf(doc) == SelectSeq(frame_out, LAMBDA g : g["Ref. document number"] = doc)

\* C18: the gold amount of every actuals row and of every cost-center-details
\* row is minus its staged amount, for M-typed rows as for the others; the
\* gold amount of a committed row is its staged amount.
C18_SignInversion ==
    /\ op \in {"actuals", "cc_details"} =>
           \A i \in DOMAIN frame_in :
               LET made == GoldRowsOf(frame_in[i]["Ref. document number"])
               IN /\ Len(made) = 1
                  /\ made[1]["Amount in Company Code Currency"] =
                         0 - frame_in[i]["Value in Obj. Crcy"]
    /\ op \in {"commit_wbs", "commit_cc"} =>
           \A i \in DOMAIN frame_in :
               LET made == GoldRowsOf(frame_in[i]["Ref. document number"])
               IN /\ Len(made) = 1
                  /\ made[1]["Amount in Company Code Currency"] =
                         frame_in[i]["Value in Obj. Crcy"]

\* Actuals with an M-typed row staged at 100 and another row staged at -5.
C18_Witness ==
    /\ op = "actuals"
    /\ \E i \in DOMAIN frame_out :
         /\ frame_out[i]["WBS Type Char"] = "M"
         /\ frame_out[i]["Amount in Company Code Currency"] = -100
    /\ \E i \in DOMAIN frame_out :
         /\ frame_out[i]["WBS Type Char"] # "M"
         /\ frame_out[i]["Amount in Company Code Currency"] = -40

----
\* The first calendar day of a month, written out.
FirstDayOf(year, month) ==
    (CASE year = 2024 -> "2024" [] year = 2025 -> "2025" [] OTHER -> "?")
    \o "-"
    \o <<"01", "02", "03", "04", "05", "06", "07", "08", "09", "10", "11", "12">>[month]
    \o "-01"

\* C19: every gold row has Year equal to its Fiscal Year, Month equal to its
\* Fiscal Period and PartitionDate the first calendar day of that year and
\* month, and is written under the partition of its Year and Month (and under
\* no other); Fiscal Year 2024 with Fiscal Period 3 gives 2024-03-01.
C19_PartitionKeys ==
    /\ to_datetime(2024, 3, 1) = "2024-03-01"
    /\ outcome = "ok" =>
           /\ \A i \in DOMAIN gold_dataset.rows :
                  LET row == gold_dataset.rows[i]
                  IN /\ row["Year"] = row["Fiscal Year"]
                     /\ row["Month"] = row["Fiscal Period"]
                     /\ row["PartitionDate"] =
                            FirstDayOf(row["Fiscal Year"], row["Fiscal Period"])
                     /\ <<row["Fiscal Year"], row["Fiscal Period"]>> \in DOMAIN output_path
                     /\ \E j \in DOMAIN output_path[<<row["Year"], row["Month"]>>] :
                            output_path[<<row["Year"], row["Month"]>>][j] = row
           /\ \A q \in DOMAIN output_path :
                  \A j \in DOMAIN output_path[q] :
                      /\ output_path[q][j]["Fiscal Year"] = q[1]
                      /\ output_path[q][j]["Fiscal Period"] = q[2]

\* A gold dataset written to two partitions, one of them Year=2024/Month=3
\* holding a row dated 2024-03-01.
C19_Witness ==
    /\ outcome = "ok"
    /\ <<2024, 3>> \in DOMAIN output_path
    /\ <<2024, 12>> \in DOMAIN output_path
    /\ \E j \in DOMAIN output_path[<<2024, 3>>] :
           /\ output_path[<<2024, 3>>][j]["PartitionDate"] = "2024-03-01"
           /\ output_path[<<2024, 3>>][j]["Fiscal Year"] = 2024
           /\ output_path[<<2024, 3>>][j]["Fiscal Period"] = 3

----
\* The gold rows made from the staged row of file name n and document number doc.
GoldOf(n, doc) ==
    SelectSeq(gold_dataset.rows,
              LAMBDA g : g["source_file"] = n /\ g["Ref. document number"] = doc)

TransformedTables == {"actuals", "cost_center_details", "commit_wbs", "commit_cc"}

RECURSIVE StagedCount(_)
StagedCount(keys) ==
    IF keys = {} THEN 0
    ELSE LET k == CHOOSE q \in keys : TRUE
         IN Len(tables[k].rows) + StagedCount(keys \ {k})

\* C20: after run_transformation every staged actuals, cost-center-details
\* and committed row has exactly one gold row and the gold dataset has no
\* other row; where a lookup finds no match (no WBS element, no compass code
\* for the G/L account nor for the cost center, no profit center) the derived
\* columns are null; actuals rows with a null WBS Type Char are kept, once.
C20_OneGoldRowEach ==
    outcome = "ok" =>
        /\ Len(gold_dataset.rows) = StagedCount(TransformedTables)
        /\ \A k \in TransformedTables :
               \A i \in DOMAIN tables[k].rows :
                   Len(GoldOf(tables[k].rows[i]["source_file"],
                              tables[k].rows[i]["Ref. document number"])) = 1
        /\ \A j \in DOMAIN gold_dataset.rows :
               LET g == gold_dataset.rows[j]
               IN /\ (\A e \in DOMAIN meta.wbs_elements :
                          meta.wbs_elements[e]["WBS Element Code"] # g["WBS Element Code"])
                      => g["WBS Type Char"] = NA /\ g["WBS Element Name"] = NA
                  /\ (/\ CompassOfGl(meta, g["G/L Account"]) = NA
                      /\ CompassOfCostCenter(meta, g["Cost Center Code"]) = NA)
                      => g["Compass Code"] = NA /\ g["P&L Line Text"] = NA
                  /\ (\A e \in DOMAIN meta.profit_centers :
                          meta.profit_centers[e]["Profit Center Code"] #
                              g["Profit Center Code"])
                      => g["Signature Code"] = NA /\ g["Signature Description"] = NA

\* A gold dataset holding an M-typed actuals row and an actuals row whose WBS
\* element is unknown (null WBS Type Char, null compass code).
C20_Witness ==
    /\ outcome = "ok"
    /\ \E j \in DOMAIN gold_dataset.rows :
           /\ gold_dataset.rows[j]["Scenario"] = "Actuals"
           /\ gold_dataset.rows[j]["WBS Type Char"] = "M"
    /\ \E j \in DOMAIN gold_dataset.rows :
           /\ gold_dataset.rows[j]["Scenario"] = "Actuals"
           /\ gold_dataset.rows[j]["WBS Element Code"] = "X900"
           /\ gold_dataset.rows[j]["WBS Type Char"] = NA
           /\ gold_dataset.rows[j]["Compass Code"] = NA

----
\* An integrity failure awaits run_transformation: no reference table exists,
\* or the G/L-to-compass table breaks the one-to-one join.
IntegrityFailure(m) == m = NoMeta \/ TwoCompassCodes(m)

C21_StepKeepsGold ==
    IntegrityFailure(meta) =>
        /\ gold_dataset' = gold_dataset
        /\ output_path' = output_path
        /\ outcome' # outcome => outcome' = "raised"

\* C21: while the reference tables are missing or break the declared
\* cardinality of a join, a run_transformation ends raised, and no step
\* modifies the gold_dataset table or the partitioned files: the previous gold
\* output stays as it was.
C21_FailureKeepsGold == [][C21_StepKeepsGold]_vars

\* A transformation succeeded, the reference tables were then replaced by
\* tables with two compass codes for one account, and the next
\* run_transformation raised: the earlier gold table and partitions are there.
C21_Witness ==
    /\ meta # NoMeta
    /\ TwoCompassCodes(meta)
    /\ outcome = "raised"
    /\ gold_dataset.exists
    /\ Len(gold_dataset.rows) > 3
    /\ DOMAIN output_path # {}

----
PartitionKeyOf(row) == <<row["Year"], row["Month"]>>

PartitionKeysOf(frame) == {PartitionKeyOf(frame[i]) : i \in DOMAIN frame}

C22_StepOverwriteOrIgnore ==
    (/\ outcome' = "ok"
     /\ <<gold_dataset, output_path, outcome>>' # <<gold_dataset, output_path, outcome>>)
    => LET new == gold_dataset'.rows
           keys == PartitionKeysOf(new)
       IN /\ gold_dataset'.exists
          /\ DOMAIN output_path' = keys \cup DOMAIN output_path
          /\ \A q \in keys :
                 output_path'[q] = SelectSeq(new, LAMBDA r : PartitionKeyOf(r) = q)
          /\ \A q \in (DOMAIN output_path) \ keys : output_path'[q] = output_path[q]

----
\* The nearest level-one element at or before row i of the table (0: none).
NearestLevelOne(wbs_elements, i) ==
    LET above == {j \in 1..i : wbs_elements[j]["WBS Level"] = 1}
    IN IF above = {} THEN 0 ELSE CHOOSE j \in above : \A k \in above : k <= j

\* C23 (as claimed): enhance_wbs_elements keeps the rows in the given order,
\* and gives each element the code and the name of the nearest level-one
\* element at or before it as WBS Parent Code and WBS Parent Name (a level-one
\* element is its own parent), null for an element before the first level-one
\* element.
C23_NearestLevelOne ==
    op = "enhance_wbs_elements" =>
        /\ Len(frame_out) = Len(frame_in)
        /\ \A i \in DOMAIN frame_in :
               LET p == NearestLevelOne(frame_in, i)
               IN /\ frame_out[i]["WBS Element Code"] = frame_in[i]["WBS Element Code"]
                  /\ frame_out[i]["WBS Parent Code"] =
                         IF p = 0 THEN NA ELSE frame_in[p]["WBS Element Code"]
                  /\ frame_out[i]["WBS Parent Name"] =
                         IF p = 0 THEN NA ELSE frame_in[p]["WBS Element Name"]

----
\* The staged frame with every Cost Center cell emptied.
WithoutCostCenter(frame) == AssignScalar(frame, "Cost Center", NA)

\* C24: the gold Compass Code of a committed-WBS row is the compass code of
\* the G/L Account the row carries after the WBS override, null when that
\* account has no compass code, whatever Cost Center Code the row carries and
\* whatever the cost-center mapping holds.
C24_GlAccountOnly ==
    op = "commit_wbs" =>
        /\ Len(frame_out) = Len(frame_in)
        /\ \A i \in DOMAIN frame_in :
               LET raw == RenameRow(frame_in[i])
                   gl == Coalesce(WbsDerived(meta, raw["WBS Element Code"],
                                             "WBS G/L Account"),
                                  raw["G/L Account"])
               IN /\ frame_out[i]["G/L Account"] = gl
                  /\ frame_out[i]["Compass Code"] = CompassOfGl(meta, gl)
                  /\ frame_out[i]["Cost Center Code"] = raw["Cost Center Code"]
                  /\ make_gold_commit_wbs(WithoutCostCenter(frame_in),
                         MetaFrameWbs(MetaFramesOf[meta]))[i]["Compass Code"]
                        = frame_out[i]["Compass Code"]

\* A committed-WBS frame with a row whose cost center has a compass code
\* while its overridden G/L account has none (the gold code is null), and a
\* row that takes the compass code of its G/L account.
C24_Witness ==
    /\ op = "commit_wbs"
    /\ \E i \in DOMAIN frame_out :
           /\ CompassOfCostCenter(meta, frame_out[i]["Cost Center Code"]) # NA
           /\ frame_out[i]["G/L Account"] # frame_out[i]["Native G/L Account"]
           /\ frame_out[i]["Compass Code"] = NA
    /\ \E i \in DOMAIN frame_out : frame_out[i]["Compass Code"] = "CX"

----
\* The profit center the reference tables give for a cost center: that of
\* meta_cost_centers, for a cost center whose standard hierarchy node has a
\* compass mapping (the others are dropped by link_cost_center_to_compass).
ProfitCenterOfCostCenter(m, cc) ==
    IF \E i \in DOMAIN m.cost_centers, j \in DOMAIN m.node_to_compass :
           /\ m.cost_centers[i]["Cost Center Code"] = cc
           /\ m.node_to_compass[j]["Standard Hierarchy Node"] =
                  m.cost_centers[i]["Standard Hierarchy Node"]
    THEN LET i == CHOOSE k \in DOMAIN m.cost_centers :
                      m.cost_centers[k]["Cost Center Code"] = cc
         IN m.cost_centers[i]["Profit Center Code"]
    ELSE NA

\* C25: the gold Profit Center Code of an actuals row and of a
\* cost-center-details row is the row's own profit center after the WBS
\* override (the WBS-derived one, or else the raw one) when that is not null,
\* and the profit center of its Cost Center Code only when it is null.
C25_NativeFirst ==
    op \in {"actuals", "cc_details"} =>
        \A i \in DOMAIN frame_in :
            LET raw == RenameRow(frame_in[i])
                made == GoldRowsOf(raw["Ref. document number"])
                own == Coalesce(WbsDerived(meta, raw["WBS Element Code"],
                                           "WBS Profit Center Code"),
                                raw["Profit Center Code"])
            IN /\ Len(made) = 1
               /\ made[1]["Profit Center Code"] =
                      Coalesce(own, ProfitCenterOfCostCenter(meta, raw["Cost Center Code"]))
               /\ own # NA => made[1]["Profit Center Code"] = own

\* Cost-center details with a row that keeps its own profit center although
\* its cost center maps to another one, and a row without a profit center of
\* its own that takes the one of its cost center.
C25_Witness ==
    /\ op = "cc_details"
    /\ \E i \in DOMAIN frame_out :
           /\ ProfitCenterOfCostCenter(meta, frame_out[i]["Cost Center Code"]) = "PC1"
           /\ frame_out[i]["Profit Center Code"] = "PC2"
    /\ \E i \in DOMAIN frame_in :
           /\ frame_in[i]["Profit Center"] = NA
           /\ frame_in[i]["WBS Element"] = NA
           /\ GoldRowsOf(frame_in[i]["Ref. document number"])[1]["Profit Center Code"] = "PC1"

----
\* The node of the cost-center row has a compass mapping.
NodeMapped(m, row) ==
    \E j \in DOMAIN m.node_to_compass :
        m.node_to_compass[j]["Standard Hierarchy Node"] = row["Standard Hierarchy Node"]

\* The gold row make_gold_cc_details makes of one staged row that carries cost
\* center cc and neither a G/L account nor a profit center, with the linked
\* frame at hand.
ProbeCostCenter(cc, linked) ==
    make_gold_cc_details(
        <<SetCol(SetCol(RawRecord(NA, cc, NA, NA, NA, NA, 1, 2024, 3, "D1"),
                        "source_file", "f.csv"),
                 "PartitionDate", to_datetime(2024, 3, 1))>>,
        [MetaFramesOf[MetaDefault] EXCEPT !.cost_center_to_compass = linked])[1]

\* C26: the frame link_cost_center_to_compass returns holds, in table order,
\* exactly the cost-center rows whose Standard Hierarchy Node has a compass
\* mapping, each once, with the compass code of the node and without the
\* Standard Hierarchy Node column; a cost center that was dropped gives the
\* gold rows that carry it neither a compass code nor a profit center.
C26_InnerJoin ==
    op = "link_cost_center_to_compass" =>
        LET kept == SelectSeq(frame_in, LAMBDA r : NodeMapped(meta, r))
        IN /\ Len(frame_out) = Len(kept)
           /\ \A k \in DOMAIN kept :
                  /\ frame_out[k]["Cost Center Code"] = kept[k]["Cost Center Code"]
                  /\ frame_out[k]["Profit Center Code"] = kept[k]["Profit Center Code"]
                  /\ frame_out[k]["Compass Code"] =
                         CompassOfCostCenter(meta, kept[k]["Cost Center Code"])
                  /\ frame_out[k]["Compass Code"] # NA
                  /\ "Standard Hierarchy Node" \notin DOMAIN frame_out[k]
           /\ \A i \in DOMAIN frame_in :
                  Cardinality({k \in DOMAIN frame_out :
                                  frame_out[k]["Cost Center Code"] =
                                      frame_in[i]["Cost Center Code"]})
                      = IF NodeMapped(meta, frame_in[i]) THEN 1 ELSE 0
           /\ frame_out # <<>> =>
                  \A i \in DOMAIN frame_in :
                      LET gold == ProbeCostCenter(frame_in[i]["Cost Center Code"], frame_out)
                      IN IF NodeMapped(meta, frame_in[i])
                         THEN /\ gold["Compass Code"] # NA
                              /\ gold["Profit Center Code"] =
                                     frame_in[i]["Profit Center Code"]
                         ELSE /\ gold["Compass Code"] = NA
                              /\ gold["Profit Center Code"] = NA

\* A table of three cost centers of which the one under the unmapped node N9
\* was dropped and the two others were kept.
C26_Witness ==
    /\ op = "link_cost_center_to_compass"
    /\ Len(frame_in) = 3
    /\ Len(frame_out) = 2
    /\ \E i \in DOMAIN frame_in :
           /\ frame_in[i]["Cost Center Code"] = "CC2"
           /\ ~NodeMapped(meta, frame_in[i])
    /\ \A k \in DOMAIN frame_out : frame_out[k]["Cost Center Code"] # "CC2"

----
\* The category order of the ingestion.
CategoryOrder ==
    <<"actuals", "commit_cc", "commit_wbs", "cost_center_details", "wbs_budget",
      "forecast_budget", "forecast_live_estimate", "forecast_pre_budget",
      "forecast_trend">>

CategoryRank(k) == CHOOSE i \in DOMAIN CategoryOrder : CategoryOrder[i] = k

\* The place of a candidate in the list handed to run_import.
CandidatePlace(f) == CHOOSE i \in DOMAIN data_files : data_files[i] = f

\* C27: run_import attempts files category by category in the order actuals,
\* commit_cc, commit_wbs, cost_center_details, wbs_budget, forecast_budget,
\* forecast_live_estimate, forecast_pre_budget, forecast_trend, each file under
\* the category it is routed to, and within a category in the order of the
\* candidate list of the call; each attempt has ended, committed or rolled
\* back, before the next one begins.
C27_IngestionOrder ==
    /\ \A i \in DOMAIN attempts :
          /\ attempts[i].table_key = KeyOfName[attempts[i].file_path.name]
          /\ attempts[i].result \in {"ok", "error", "duplicate key", "raised"}
    /\ \A i, j \in DOMAIN attempts :
          i < j =>
             LET a == attempts[i]
                 b == attempts[j]
             IN /\ CategoryRank(a.table_key) <= CategoryRank(b.table_key)
                /\ (/\ a.table_key = b.table_key
                    /\ a.file_path \in Range(data_files)
                    /\ b.file_path \in Range(data_files))
                   => CandidatePlace(a.file_path) <= CandidatePlace(b.file_path)

----
\* The Fiscal Type of the ordered rule for a gold row.
RuleOf(r) ==
    OrderedRule(r["WBS Element Code"], r["Cost Center Code"],
                r["Partner Cost Center Code"], r["Product Code"])

\* C28: committed rows take their Fiscal Type from their side alone: every
\* row of make_gold_commit_wbs has Fiscal Type "WBS" and every row of
\* make_gold_commit_cc has "COST CENTER", one gold row per committed row,
\* whatever WBS, cost-center or product codes the row carries; the ordered
\* rule is not applied to them.
C28_CommittedFiscalType ==
    op \in {"commit_wbs", "commit_cc"} =>
        /\ Len(frame_out) = Len(frame_in)
        /\ \A i \in DOMAIN frame_out :
              /\ frame_out[i]["Ref. document number"] = frame_in[i]["Ref. document number"]
              /\ frame_out[i]["Fiscal Type"] =
                     IF op = "commit_wbs" THEN "WBS" ELSE "COST CENTER"

\* C28 witness: a committed cost-center frame holding a row with a WBS code
\* and a row with no WBS and no cost-center code, both typed COST CENTER where
\* the ordered rule would give WBS and something else.
C28_Witness ==
    /\ op = "commit_cc"
    /\ \E i, j \in DOMAIN frame_out :
          /\ frame_out[i]["Fiscal Type"] = "COST CENTER"
          /\ RuleOf(frame_out[i]) = "WBS"
          /\ frame_out[j]["Fiscal Type"] = "COST CENTER"
          /\ RuleOf(frame_out[j]) \in {"NO WBS", "FINANCE"}

----
\* C29: each run_import invocation attempts exactly the files get_new_files
\* returned to it, each once: every attempt is of a file of that list, no
\* file is attempted twice, and when the invocation has gone through its
\* queue every file of the list has been attempted.  A file routed into a
\* bucket by an earlier invocation on the same object is not attempted again.
C29_ExactlyTheReturned ==
    /\ \A i \in DOMAIN attempts :
          /\ attempts[i].file_path \in Range(files_to_process)
          /\ \A j \in DOMAIN attempts :
                attempts[j].file_path = attempts[i].file_path => j = i
    /\ (pc = "idle" /\ ~propagated) =>
          \A f \in Range(files_to_process) :
              \E i \in DOMAIN attempts : attempts[i].file_path = f

----
\* The files an invocation has still to attempt.
QueuedFiles(q) == {q[i].file_path : i \in DOMAIN q}

\* A candidate that is ledgered has its rows staged once and was loaded once.
C30_PresentOnce ==
    \A n \in NamesOf(data_files) :
        InLedger(n) =>
            /\ Count(ingested_files.rows, n) = 1
            /\ StagedOnce(n)
            /\ loads[n] = 1

\* The next run_import takes up every file whose attempt failed and whose name
\* is not ledgered.
C30_FailedIsQueuedAgain ==
    runs' = runs + 1 =>
        \A i \in DOMAIN attempts :
            (attempts[i].result # "ok" /\ ~InLedger(attempts[i].file_path.name))
                => attempts[i].file_path \in QueuedFiles(queue')

\* In a repeated run_import, one attempt is of the file at the head of the
\* queue, and every other file taken up stays to be attempted.
C30_QueuedIsAttempted ==
    (runs > 1 /\ IsAttemptStep) =>
        /\ attempts'[Len(attempts')].file_path = Head(queue).file_path
        /\ QueuedFiles(queue) \ {Head(queue).file_path} \subseteq QueuedFiles(queue')

\* A file that succeeded earlier is not loaded again.
C30_SucceededNotReloaded ==
    \A n \in FileNames :
        InLedger(n) =>
            /\ loads'[n] = loads[n]
            /\ \A k \in TableKeySet :
                  SelectSeq(tables'[k].rows, LAMBDA r : r["source_file"] = n)
                      = Stamped(k, n)

\* C30: a failed file is retried.  It is absent from the ledger after the
\* rollback, so the next run_import with the same candidates takes it up and
\* attempts it again; if it then succeeds its rows and its ledger entry are
\* present exactly once; and files that succeeded earlier are not reloaded.
C30_FailedFileRetried ==
    /\ [] C30_PresentOnce
    /\ [][/\ C30_FailedIsQueuedAgain
          /\ C30_QueuedIsAttempted
          /\ C30_SucceededNotReloaded]_vars
====
